---- MODULE Spec2Model ----
(***************************************************************************)
(* A model of the tokenization pipeline of the tokenizers crate:           *)
(*   - WordPiece::tokenize           (models/wordpiece/mod.rs)             *)
(*   - the BPE Cache                 (models/bpe/cache.rs)                 *)
(*   - Tokenizer::encode / encode_batch / post_process (tokenizer/mod.rs)  *)
(* Strings are sequences of bytes.  A two-byte character is the byte "x1"  *)
(* followed by the continuation byte "x2", and a two-byte punctuation      *)
(* character is "y1" followed by "x2"; every other byte is a character of  *)
(* its own.                                                                *)
(***************************************************************************)
EXTENDS Integers, Sequences, FiniteSets, TLC

VARIABLES
    \* ---- WordPiece model (struct WordPiece) and one call of tokenize
    vocab,                      \* token -> id
    max_input_chars_per_word,
    sentence,                   \* Vec<(String, Offsets)>, the argument
    index,                      \* position of the outer for loop
    start,                      \* the local `start`
    output_tokens,              \* the local `output_tokens`
    wp_pc,                      \* "word" | "loop" | "ok" | "err" | "panic" | "diverge" | "off"
    \* ---- BPE Cache (struct Cache<K, V>) shared by threads
    map,                        \* the HashMap behind the RwLock
    capacity,
    lock_readers,               \* threads holding a read guard
    lock_writer,                \* the thread holding the write guard, or NoThread
    c_pc,                       \* per thread: where it is in get_values / set_values / clear
    last_call,                  \* the call that returned last: ret "None" | "Some" (of result) for get
    offered,                    \* history: every (key, Some(value)) given to a set_values call
    \* ---- Tokenizer (struct Tokenizer) and one call of encode_batch
    tk,                         \* pre_tokenizer, post_processor, truncation, padding; the build
    add_special_tokens,         \* the argument of encode / encode_batch
    inputs,                     \* Vec<EncodeInput>, the argument
    stage,                      \* per input: the encodings of its sequences, before post_process
    results,                    \* per input: what encode returned
    done_order,                 \* the inputs in the order their encode calls returned
    batch,                      \* what encode_batch returned
    error,                      \* the input whose error encode_batch returned as Err, 0: none
    e_pc,                       \* "run" | "ok" | "err" | "panic" | "off"
    \* ---- Tokenizer: the added vocabulary, the decoder, and the calls that use them
    added_tokens_map,           \* AddedVocabulary: token -> id of the added tokens
    special_tokens,             \* AddedVocabulary: the tokens flagged special
    decoder,                    \* Option<Decoder>
    call,                       \* the last call: op and arguments
    ret,                        \* what the last call returned
    \* ---- Deserialize for Tokenizer: TokenizerVisitor::visit_map on a JSON document
    doc,                        \* the entries (key, value) of the top-level object
    map_pos,                    \* MapAccess: the entries read so far
    map_pending,                \* MapAccess: a key was read and its value not yet
    de_key,                     \* the local `key` next_key returned
    normalizer,                 \* Tokenizer.normalizer, an Option
    de_tokens,                  \* the local `tokens`
    de_pc,                      \* "key" | "match" | "ok" | "err" | "off"
    \* ---- one PreTokenizer and one call of pre_tokenize, one Decoder and one call of decode
    pretok,                     \* the PreTokenizer (self); Metaspace is the Decoder too
    nstring,                    \* the NormalizedString given as &mut normalized
    given,                      \* history: the text of nstring before the call
    pieces,                     \* what pre_tokenize returned
    dec_tokens,                 \* the argument of decode
    dec_out,                    \* what decode returned
    p_pc,                       \* "new" | "split" | "back" | "decoded" | "off"
    \* ---- WordPieceBuilder and one call of build
    config,                     \* Config: files (an Option) and vocab
    vocab_r,                    \* WordPiece.vocab_r as build collected it: id -> token
    b_pc                        \* "builder" | "built" | "err" | "off"

wpvars == <<vocab, max_input_chars_per_word, sentence, index, start, output_tokens, wp_pc>>

cachevars == <<map, capacity, lock_readers, lock_writer, c_pc, last_call, offered>>

encvars == <<tk, add_special_tokens, inputs, stage, results, done_order, batch, error, e_pc>>

vocvars == <<added_tokens_map, special_tokens, decoder, call, ret>>

devars == <<doc, map_pos, map_pending, de_key, normalizer, de_tokens, de_pc>>

prevars == <<pretok, nstring, given, pieces, dec_tokens, dec_out, p_pc>>

bldvars == <<config, vocab_r, b_pc>>

vars == <<wpvars, cachevars, encvars, vocvars, devars, prevars, bldvars>>

\* what the steps of one component leave alone
othervars_wp == <<cachevars, encvars, vocvars, devars, prevars, bldvars>>
othervars_cache == <<wpvars, encvars, vocvars, devars, prevars, bldvars>>
othervars_enc == <<wpvars, cachevars, vocvars, devars, prevars, bldvars>>
othervars_voc == <<wpvars, cachevars, encvars, devars, prevars, bldvars>>
othervars_pre == <<wpvars, cachevars, encvars, vocvars, devars, bldvars>>
othervars_bld == <<cachevars, encvars, vocvars, devars, prevars>>

(***************************************************************************)
(* Bounds of the model.                                                    *)
(***************************************************************************)
MaxBytes == 4          \* total number of bytes of the words of a sentence
MaxWords == 2          \* number of pre-tokens of a sentence
SmallMaxChars == 2     \* the non-default max_input_chars_per_word
NumThreads == 2        \* threads sharing the cache
MaxCapacity == 2       \* largest cache capacity

(***************************************************************************)
(* Strings.                                                                *)
(***************************************************************************)
Bytes == {"a", "b", "x1", "x2"}

\* s[a..b] of Rust, on 0-based byte offsets
Slice(s, a, b) == SubSeq(s, a + 1, b)

\* str::is_char_boundary
IsCharBoundary(s, i) ==
    \/ i = 0
    \/ i = Len(s)
    \/ (0 < i /\ i < Len(s) /\ s[i + 1] # "x2")

\* the strings that are valid UTF-8: "x1" is always followed by "x2", and
\* "x2" always follows "x1"
ValidStr(s) ==
    /\ \A i \in 1..Len(s) : s[i] = "x1" => (i < Len(s) /\ s[i + 1] = "x2")
    /\ \A i \in 1..Len(s) : s[i] = "x2" => (i > 1 /\ s[i - 1] = "x1")

\* s.chars().count()
CharCount(s) == Cardinality({i \in 1..Len(s) : s[i] # "x2"})

\* s.char_indices().map(|(i, _)| i).chain(Some(s.len())): a set, iterated in
\* descending order by the caller
CharEnds(s) == {i \in 0..Len(s) : IsCharBoundary(s, i)}

SetMax(S) == CHOOSE x \in S : \A y \in S : y <= x

StrsOfLen(n) == {s \in [1..n -> Bytes] : ValidStr(s)}

Words == UNION {StrsOfLen(n) : n \in 0..MaxBytes}

(***************************************************************************)
(* WordPiece: configuration.                                               *)
(***************************************************************************)
unk_token == <<"[", "U", "N", "K", "]">>

continuing_subword_prefix == <<"#", "#">>

DefaultMaxInputChars == 100

\* The tokens a vocabulary of the model may hold, with the id of each.
VocabTokens ==
    <<  <<"a">>, <<"a", "b">>, <<"#", "#", "b">>, <<"#", "#">>, unk_token, <<>> >>

VocabOf(ids) == [t \in {VocabTokens[i] : i \in ids} |->
                    (CHOOSE i \in ids : VocabTokens[i] = t) - 1]

Vocabs == {VocabOf(ids) : ids \in SUBSET (1..Len(VocabTokens))}

\* The vocabulary {"un": 0, "##aff": 1, "##able": 2, "[UNK]": 3} and the
\* words "unaffable" and "unknowable"
ExampleVocab ==
    (<<"u", "n">> :> 0) @@ (<<"#", "#", "a", "f", "f">> :> 1)
        @@ (<<"#", "#", "a", "b", "l", "e">> :> 2) @@ (unk_token :> 3)

Unaffable == <<"u", "n", "a", "f", "f", "a", "b", "l", "e">>

Unknowable == <<"u", "n", "k", "n", "o", "w", "a", "b", "l", "e">>

\* vocab.get(key)
InVocab(key) == key \in DOMAIN vocab

\* The pre-tokens of a sentence follow each other in the input, one byte
\* apart: the offsets of word k
RECURSIVE WordStart(_, _)
WordStart(ws, k) == IF k = 1 THEN 0 ELSE WordStart(ws, k - 1) + Len(ws[k - 1]) + 1

SentenceOf(ws) == [k \in 1..Len(ws) |->
                     [token |-> ws[k],
                      offsets |-> <<WordStart(ws, k), WordStart(ws, k) + Len(ws[k])>>]]

RECURSIVE TotalLen(_)
TotalLen(ws) == IF ws = <<>> THEN 0 ELSE Len(Head(ws)) + TotalLen(Tail(ws))

\* the lists of n words of at most budget bytes in all
RECURSIVE WordLists(_, _)
WordLists(n, budget) ==
    IF n = 0 THEN {<<>>}
    ELSE UNION {{<<w>> \o rest : w \in StrsOfLen(k), rest \in WordLists(n - 1, budget - k)} :
                   k \in 0..budget}

Sentences ==
    {SentenceOf(ws) : ws \in UNION {WordLists(n, MaxBytes) : n \in 1..MaxWords}}

ExampleSentences ==
    {SentenceOf(ws) : ws \in {<<Unaffable>>, <<Unknowable>>, <<Unknowable, Unaffable>>}}

(***************************************************************************)
(* WordPiece::tokenize, one iteration of `'a: while start < token.len()`.  *)
(***************************************************************************)
\* `substr`, lines 234-238; the slice token[start..] panics off a boundary
SubstrPanics(token, st) == st > 0 /\ ~IsCharBoundary(token, st)

Substr(token, st) ==
    IF st = 0 THEN token
    ELSE continuing_subword_prefix \o Slice(token, st, Len(token))

\* What `self.vocab.get(&substr[..end-start])` does for one `end`, line 240:
\* end - start underflows when end < start (a panic, or in a build without
\* overflow checks a wrapped index that is out of range: also a panic), and
\* the slice panics off a character boundary of substr.
LookupOutcome(token, st, end) ==
    LET substr == Substr(token, st) IN
    IF end < st THEN "panic"
    ELSE IF end - st > Len(substr) \/ ~IsCharBoundary(substr, end - st) THEN "panic"
    ELSE IF InVocab(Slice(substr, 0, end - st)) THEN "match"
    ELSE "miss"

\* The inner `for end in chars.iter().rev()`: the first end, from the
\* largest, whose lookup matches or panics; "miss" when every lookup misses.
ForEnds(token, st) ==
    LET hits == {e \in CharEnds(token) : LookupOutcome(token, st, e) # "miss"} IN
    IF SubstrPanics(token, st) THEN [kind |-> "panic", end |-> 0]
    ELSE IF hits = {} THEN [kind |-> "miss", end |-> 0]
    ELSE [kind |-> LookupOutcome(token, st, SetMax(hits)), end |-> SetMax(hits)]

\* The Token pushed on a match, lines 241-246
MatchToken(token, offs, idx, st, end) ==
    [id |-> vocab[Slice(Substr(token, st), 0, end - st)],
     value |-> Substr(token, st),
     offsets |-> <<offs[1] + st, offs[1] + end>>,
     word |-> idx]

\* (mutant) the unknown token pushed with the word index of the first
\* pre-token
UnkTokenFirstWord(offs, idx) ==
    [id |-> vocab[unk_token], value |-> unk_token, offsets |-> offs, word |-> 0]

\* The Token pushed for an unknown word, lines 218-226 and 251-259
UnkToken(offs, idx) ==
    [id |-> vocab[unk_token], value |-> unk_token, offsets |-> offs, word |-> idx]

CurToken == sentence[index + 1].token
CurOffsets == sentence[index + 1].offsets

\* for (index, (token, initial_offsets)) in sentence.into_iter().enumerate():
\* a word longer than max_input_chars_per_word, lines 216-228
WPTooLong ==
    /\ wp_pc = "word"
    /\ index < Len(sentence)
    /\ CharCount(CurToken) > max_input_chars_per_word
    /\ IF InVocab(unk_token)
       THEN /\ output_tokens' = Append(output_tokens, UnkToken(CurOffsets, index))
            /\ index' = index + 1
            /\ wp_pc' = "word"
       ELSE /\ wp_pc' = "err"
            /\ UNCHANGED <<output_tokens, index>>
    /\ UNCHANGED <<vocab, max_input_chars_per_word, sentence, start>>
    /\ UNCHANGED othervars_wp

\* let mut start = 0, line 230
WPBeginWord ==
    /\ wp_pc = "word"
    /\ index < Len(sentence)
    /\ CharCount(CurToken) <= max_input_chars_per_word
    /\ start' = 0
    /\ wp_pc' = "loop"
    /\ UNCHANGED <<vocab, max_input_chars_per_word, sentence, index, output_tokens>>
    /\ UNCHANGED othervars_wp

\* a lookup matched: push the token, start = end, continue 'a.  When end =
\* start the next iteration is in the same state but for output_tokens: the
\* loop never ends.
WPMatch ==
    /\ wp_pc = "loop"
    /\ start < Len(CurToken)
    /\ LET r == ForEnds(CurToken, start) IN
         /\ r.kind = "match"
         /\ output_tokens' = Append(output_tokens,
                               MatchToken(CurToken, CurOffsets, index, start, r.end))
         /\ start' = r.end
         /\ wp_pc' = IF r.end = start THEN "diverge" ELSE "loop"
    /\ UNCHANGED <<vocab, max_input_chars_per_word, sentence, index>>
    /\ UNCHANGED othervars_wp

\* no lookup matched: push unk_token (or fail), start += 1, lines 251-260
WPNoMatch ==
    /\ wp_pc = "loop"
    /\ start < Len(CurToken)
    /\ ForEnds(CurToken, start).kind = "miss"
    /\ IF InVocab(unk_token)
       THEN /\ output_tokens' = Append(output_tokens, UnkToken(CurOffsets, index))
            /\ start' = start + 1
            /\ wp_pc' = "loop"
       ELSE /\ wp_pc' = "err"
            /\ UNCHANGED <<output_tokens, start>>
    /\ UNCHANGED <<vocab, max_input_chars_per_word, sentence, index>>
    /\ UNCHANGED othervars_wp

\* a slice or the subtraction end - start panics
WPPanic ==
    /\ wp_pc = "loop"
    /\ start < Len(CurToken)
    /\ ForEnds(CurToken, start).kind = "panic"
    /\ wp_pc' = "panic"
    /\ UNCHANGED <<vocab, max_input_chars_per_word, sentence, index, start, output_tokens>>
    /\ UNCHANGED othervars_wp

\* start >= token.len(): the while loop ends, the for loop goes on
WPEndWord ==
    /\ wp_pc = "loop"
    /\ start >= Len(CurToken)
    /\ index' = index + 1
    /\ wp_pc' = "word"
    /\ UNCHANGED <<vocab, max_input_chars_per_word, sentence, start, output_tokens>>
    /\ UNCHANGED othervars_wp

\* Ok(output_tokens), line 264
WPReturn ==
    /\ wp_pc = "word"
    /\ index = Len(sentence)
    /\ wp_pc' = "ok"
    /\ UNCHANGED <<vocab, max_input_chars_per_word, sentence, index, start, output_tokens>>
    /\ UNCHANGED othervars_wp

WPInit ==
    /\ \/ /\ vocab \in Vocabs
          /\ sentence \in Sentences
          /\ max_input_chars_per_word \in {SmallMaxChars, DefaultMaxInputChars}
       \/ /\ vocab = ExampleVocab
          /\ sentence \in ExampleSentences
          /\ max_input_chars_per_word = DefaultMaxInputChars
    /\ index = 0
    /\ start = 0
    /\ output_tokens = <<>>
    /\ wp_pc = "word"

WPNext ==
    \/ WPTooLong
    \/ WPBeginWord
    \/ WPMatch
    \/ WPNoMatch
    \/ WPPanic
    \/ WPEndWord
    \/ WPReturn

(***************************************************************************)
(* The segmentation section 4.4 of the specification describes: greedy     *)
(* longest match from the left, the bare prefix at byte 0 and              *)
(* continuing_subword_prefix + prefix further on.                          *)
(***************************************************************************)
PieceKey(word, pos, e) ==
    IF pos = 0 THEN Slice(word, 0, e)
    ELSE continuing_subword_prefix \o Slice(word, pos, e)

LongestEnds(word, pos) ==
    {e \in CharEnds(word) : e > pos /\ InVocab(PieceKey(word, pos, e))}

RECURSIVE GreedyPieces(_, _)
GreedyPieces(word, pos) ==
    IF pos >= Len(word) THEN <<>>
    ELSE IF LongestEnds(word, pos) = {} THEN <<[bad |-> TRUE]>>
    ELSE LET e == SetMax(LongestEnds(word, pos)) IN
         <<[bad |-> FALSE, b |-> pos, e |-> e, key |-> PieceKey(word, pos, e)]>>
             \o GreedyPieces(word, e)

Segmentable(word) ==
    \A k \in 1..Len(GreedyPieces(word, 0)) : ~GreedyPieces(word, 0)[k].bad

\* the tokens section 4.4 asks for a fully segmented word
ExpectedTokens(word, offs, idx) ==
    [k \in 1..Len(GreedyPieces(word, 0)) |->
        LET p == GreedyPieces(word, 0)[k] IN
        [id |-> vocab[p.key], value |-> p.key,
         offsets |-> <<offs[1] + p.b, offs[1] + p.e>>, word |-> idx]]

TokensOfWord(i) == SelectSeq(output_tokens, LAMBDA t : t.word = i)

WordIndexes == 0..(Len(sentence) - 1)

ShortWord(i) == CharCount(sentence[i + 1].token) <= max_input_chars_per_word

\* the claims are read on vocabularies without the empty token
SaneVocab == wp_pc # "off" /\ ~InVocab(<<>>)

\* the call is inside word i and has crashed, failed or hangs there
StuckIn(i) == index = i /\ wp_pc \in {"panic", "diverge", "err"}

\* C1: a pre-token of at most max_input_chars_per_word characters that the
\* vocabulary fully segments is emitted as its greedy longest-match pieces,
\* left to right; the value of each token is the matched vocabulary entry
\* and its id the id of that entry.
C1_GreedyLongestMatch ==
    \A i \in WordIndexes :
        (SaneVocab /\ ShortWord(i) /\ Segmentable(sentence[i + 1].token)) =>
            /\ ~StuckIn(i)
            /\ index > i =>
                  LET exp == ExpectedTokens(sentence[i + 1].token,
                                            sentence[i + 1].offsets, i) IN
                  /\ Len(TokensOfWord(i)) = Len(exp)
                  /\ \A k \in 1..Len(exp) :
                        /\ TokensOfWord(i)[k].value = exp[k].value
                        /\ TokensOfWord(i)[k].id = exp[k].id

\* C2: a pre-token with a position where no prefix of the rest is in vocab
\* gives exactly one token, unk_token with its id and the offsets of the
\* whole pre-token.
C2_BadWordIsOneUnk ==
    \A i \in WordIndexes :
        (SaneVocab /\ ShortWord(i) /\ ~Segmentable(sentence[i + 1].token)
            /\ InVocab(unk_token)) =>
            /\ ~StuckIn(i)
            /\ index > i =>
                  TokensOfWord(i) = <<UnkToken(sentence[i + 1].offsets, i)>>

\* the vocabulary entry a token's id stands for
EntryOf(id) == CHOOSE t \in DOMAIN vocab : vocab[t] = id

HasPrefix(s) ==
    /\ Len(s) >= Len(continuing_subword_prefix)
    /\ Slice(s, 0, Len(continuing_subword_prefix)) = continuing_subword_prefix

\* token t of a pre-token (word, offs) lies on the bytes of its piece
OffsetsOnPiece(t, word, offs) ==
    LET b == t.offsets[1] - offs[1]
        e == t.offsets[2] - offs[1]
        key == EntryOf(t.id)
    IN  /\ 0 <= b /\ b <= e /\ e <= Len(word)
        /\ IF b = 0 THEN Slice(word, b, e) = key
           ELSE /\ HasPrefix(key)
                /\ Slice(word, b, e) = Slice(key, Len(continuing_subword_prefix), Len(key))

IsUnk(t) == InVocab(unk_token) /\ t.id = vocab[unk_token]

\* C3: the offsets of every non-unknown token are word_start plus the byte
\* range of its piece in the word, the prefix not counted; the pieces of a
\* fully segmented word are contiguous from word_start to the word's end.
C3_PieceOffsets ==
    SaneVocab =>
        /\ \A k \in 1..Len(output_tokens) :
              LET t == output_tokens[k] IN
              ~IsUnk(t) => OffsetsOnPiece(t, sentence[t.word + 1].token,
                                          sentence[t.word + 1].offsets)
        /\ \A i \in WordIndexes :
              LET ts == TokensOfWord(i)
                  offs == sentence[i + 1].offsets
              IN  (index > i /\ ts # <<>> /\ \A k \in 1..Len(ts) : ~IsUnk(ts[k])) =>
                      /\ ts[1].offsets[1] = offs[1]
                      /\ ts[Len(ts)].offsets[2] = offs[1] + Len(sentence[i + 1].token)
                      /\ \A k \in 1..(Len(ts) - 1) :
                            ts[k].offsets[2] = ts[k + 1].offsets[1]


\* the loop has gone past every pre-token of more than
\* max_input_chars_per_word characters with one token pushed for it
LongWordsDone ==
    \A i \in WordIndexes :
        (~ShortWord(i) /\ index > i) =>
            /\ InVocab(unk_token)
            /\ TokensOfWord(i) = <<UnkToken(sentence[i + 1].offsets, i)>>

\* the step of the loop at a long pre-token when unk_token is missing
LongWordFails ==
    (wp_pc = "word" /\ index < Len(sentence) /\ ~ShortWord(index)
        /\ ~InVocab(unk_token)) => wp_pc' = "err"

\* C13: for a pre-token of more than max_input_chars_per_word characters
\* tokenize emits exactly one token, unk_token with the offsets of the
\* whole pre-token and word = index of the pre-token; if unk_token is not
\* in vocab the call fails there (MissingUnkToken) and never returns Ok.
C13_LongWordIsOneUnk == [](LongWordsDone) /\ [][LongWordFails]_vars

\* tokenize returned Ok on a sentence whose second pre-token is too long
C13_Witness ==
    /\ wp_pc = "ok"
    /\ Len(sentence) = 2
    /\ ShortWord(0) /\ ~ShortWord(1)
    /\ TokensOfWord(0) # <<>>
    /\ output_tokens[Len(output_tokens)] = UnkToken(sentence[2].offsets, 1)


(***************************************************************************)
(* The BPE Cache, models/bpe/cache.rs.  Each thread is in one call at a    *)
(* time; a call is a sequence of steps between which the other threads     *)
(* run.  RwLock::try_read fails when the lock is write-locked, and may     *)
(* fail when a writer waits for it (the blocking write() of clear);        *)
(* RwLock::try_write fails when the lock is held at all.                   *)
(***************************************************************************)
Threads == 1..NumThreads

NoThread == 0

Keys == {"k1", "k2"}

Values == {"v1", "v2"}

None == "None"

\* the keys_iter of a call
KeyLists == {<<>>, <<"k1">>, <<"k2">>, <<"k1", "k2">>, <<"k2", "k1">>}

\* the (keys_iter, values_iter) of a set_values call; the values are
\* Option<V> items
SetArgs ==
    {<<ks, vs>> \in KeyLists \X {<<"v1">>, <<"v2">>} : Len(ks) = 1}
    \cup {<<ks, vs>> \in KeyLists \X {<<None, "v2">>, <<"v1", "v2">>, <<"v2", None>>} :
              Len(ks) = 2}
    \cup {<<<<>>, <<>>>>, <<<<"k1">>, <<"v1", "v2">>>>}

EmptyMap == [k \in {} |-> None]

MapLen(m) == Cardinality(DOMAIN m)

\* HashMap::insert
MapInsert(m, k, v) == [x \in (DOMAIN m) \cup {k} |-> IF x = k THEN v ELSE m[x]]

\* (mutant) the None values filtered out before the zip: keys and values
\* no longer pair by position
RECURSIVE ZipFilterShifted(_, _)
ZipFilterShifted(ks, vs) ==
    LET somes == SelectSeq(vs, LAMBDA v : v # None) IN
    IF ks = <<>> \/ somes = <<>> THEN <<>>
    ELSE <<<<Head(ks), Head(somes)>>>> \o ZipFilterShifted(Tail(ks), Tail(somes))

\* keys_iter.zip(values_iter).filter(|(_, v)| v.is_some()), line 142
RECURSIVE ZipFilter(_, _)
ZipFilter(ks, vs) ==
    IF ks = <<>> \/ vs = <<>> THEN <<>>
    ELSE (IF Head(vs) # None THEN <<<<Head(ks), Head(vs)>>>> ELSE <<>>)
             \o ZipFilter(Tail(ks), Tail(vs))

\* (mutant) the for loop without the capacity check of lines 144-146
RECURSIVE InsertLoopUnchecked(_, _, _)
InsertLoopUnchecked(m, pairs, cap) ==
    IF pairs = <<>> THEN m
    ELSE InsertLoopUnchecked(MapInsert(m, Head(pairs)[1], Head(pairs)[2]), Tail(pairs), cap)

\* the for loop of set_values, lines 142-148: the map after it
RECURSIVE InsertLoop(_, _, _)
InsertLoop(m, pairs, cap) ==
    IF pairs = <<>> \/ MapLen(m) >= cap THEN m
    ELSE InsertLoop(MapInsert(m, Head(pairs)[1], Head(pairs)[2]), Tail(pairs), cap)

\* the (key, Some(value)) pairs of a set_values call, by position
Offered(ks, vs) ==
    {<<ks[i], vs[i]>> : i \in {j \in 1..Len(ks) : j <= Len(vs) /\ vs[j] # None}}

\* keys_iter.map(|k| cache.get(&k).cloned()).collect(), line 117
Lookup(m, ks) == [i \in 1..Len(ks) |-> IF ks[i] \in DOMAIN m THEN m[ks[i]] ELSE None]

WriterWaiting == \E t \in Threads : c_pc[t] = "clear_wait"

\* (mutant) read() in place of try_read(): it waits, it never fails
TryReadWaits == FALSE

\* self.map.try_read()
TryReadSucceeds == lock_writer = NoThread
TryReadFails == lock_writer # NoThread \/ WriterWaiting

\* self.map.try_write()
TryWriteSucceeds == lock_writer = NoThread /\ lock_readers = {}

\* get_values, line 116: try_read; Err(_) => None.  The keys of a call are
\* read under the guard only, so the model draws them where they are read.
GetCall(t) ==
    /\ c_pc[t] = "idle"
    /\ \E ks \in KeyLists :
         \/ /\ TryReadSucceeds
            /\ lock_readers' = lock_readers \cup {t}
            /\ c_pc' = [c_pc EXCEPT ![t] = "get_read"]
            /\ UNCHANGED last_call
         \/ /\ TryReadFails
            /\ c_pc' = [c_pc EXCEPT ![t] = "idle"]
            /\ last_call' = [op |-> "get", keys |-> ks, ret |-> "None", result |-> <<>>]
            /\ UNCHANGED lock_readers
    /\ UNCHANGED <<map, capacity, lock_writer, offered>>
    /\ UNCHANGED othervars_cache

\* get_values, line 117: read under the guard, then drop it
GetRead(t) ==
    /\ c_pc[t] = "get_read"
    /\ \E ks \in KeyLists :
         last_call' = [op |-> "get", keys |-> ks, ret |-> "Some", result |-> Lookup(map, ks)]
    /\ lock_readers' = lock_readers \ {t}
    /\ c_pc' = [c_pc EXCEPT ![t] = "idle"]
    /\ UNCHANGED <<map, capacity, lock_writer, offered>>
    /\ UNCHANGED othervars_cache

\* set_values, lines 130 and 135-139: try_read
SetCall(t) ==
    /\ c_pc[t] = "idle"
    /\ \/ /\ TryReadSucceeds
          /\ lock_readers' = lock_readers \cup {t}
          /\ c_pc' = [c_pc EXCEPT ![t] = "set_check"]
          /\ UNCHANGED last_call
       \/ /\ TryReadFails
          /\ c_pc' = [c_pc EXCEPT ![t] = "idle"]
          /\ last_call' = [op |-> "set", keys |-> <<>>, ret |-> "busy", result |-> <<>>]
          /\ UNCHANGED lock_readers
    /\ UNCHANGED <<map, capacity, lock_writer, offered>>
    /\ UNCHANGED othervars_cache

\* (mutant) set_values that, at capacity, evicts an entry for its first key
SetCheckEvicting(t) ==
    /\ c_pc[t] = "set_check"
    /\ lock_readers' = lock_readers \ {t}
    /\ IF MapLen(map) >= capacity
       THEN /\ c_pc' = [c_pc EXCEPT ![t] = "idle"]
            /\ \E ks \in KeyLists :
                 /\ last_call' = [op |-> "set", keys |-> ks, ret |-> "full", result |-> <<>>]
                 /\ map' = IF ks # <<>> /\ ks[1] \notin DOMAIN map /\ map # EmptyMap
                           THEN LET old == CHOOSE k \in DOMAIN map : TRUE
                                IN  [x \in ((DOMAIN map) \ {old}) \cup {ks[1]} |->
                                        IF x = ks[1] THEN "v1" ELSE map[x]]
                           ELSE map
       ELSE /\ c_pc' = [c_pc EXCEPT ![t] = "set_try_write"]
            /\ UNCHANGED <<last_call, map>>
    /\ UNCHANGED <<capacity, lock_writer, offered>>
    /\ UNCHANGED othervars_cache

\* set_values, lines 131-134: at capacity => return; the guard is dropped
\* and the keys of the call are left unused
SetCheck(t) ==
    /\ c_pc[t] = "set_check"
    /\ lock_readers' = lock_readers \ {t}
    /\ IF MapLen(map) >= capacity
       THEN /\ c_pc' = [c_pc EXCEPT ![t] = "idle"]
            /\ \E ks \in KeyLists :
                 last_call' = [op |-> "set", keys |-> ks, ret |-> "full", result |-> <<>>]
       ELSE /\ c_pc' = [c_pc EXCEPT ![t] = "set_try_write"]
            /\ UNCHANGED last_call
    /\ UNCHANGED <<map, capacity, lock_writer, offered>>
    /\ UNCHANGED othervars_cache

\* set_values, line 141: try_write
SetTryWrite(t) ==
    /\ c_pc[t] = "set_try_write"
    /\ IF TryWriteSucceeds
       THEN /\ lock_writer' = t
            /\ c_pc' = [c_pc EXCEPT ![t] = "set_write"]
            /\ UNCHANGED last_call
       ELSE /\ c_pc' = [c_pc EXCEPT ![t] = "idle"]
            /\ last_call' = [op |-> "set", keys |-> <<>>, ret |-> "busy", result |-> <<>>]
            /\ UNCHANGED lock_writer
    /\ UNCHANGED <<map, capacity, lock_readers, offered>>
    /\ UNCHANGED othervars_cache

\* set_values, lines 142-149: the inserts under the write guard, then drop
SetWrite(t) ==
    /\ c_pc[t] = "set_write"
    /\ \E args \in SetArgs :
         /\ map' = InsertLoop(map, ZipFilter(args[1], args[2]), capacity)
         /\ offered' = offered \cup Offered(args[1], args[2])
         /\ last_call' = [op |-> "set", keys |-> args[1], ret |-> "stored", result |-> <<>>]
    /\ lock_writer' = NoThread
    /\ c_pc' = [c_pc EXCEPT ![t] = "idle"]
    /\ UNCHANGED <<capacity, lock_readers>>
    /\ UNCHANGED othervars_cache

\* clear, line 107: self.map.write() waits for the lock
ClearCall(t) ==
    /\ c_pc[t] = "idle"
    /\ c_pc' = [c_pc EXCEPT ![t] = "clear_wait"]
    /\ UNCHANGED <<map, capacity, lock_readers, lock_writer, last_call, offered>>
    /\ UNCHANGED othervars_cache

ClearLock(t) ==
    /\ c_pc[t] = "clear_wait"
    /\ lock_writer = NoThread /\ lock_readers = {}
    /\ lock_writer' = t
    /\ c_pc' = [c_pc EXCEPT ![t] = "clear_write"]
    /\ UNCHANGED <<map, capacity, lock_readers, last_call, offered>>
    /\ UNCHANGED othervars_cache

ClearWrite(t) ==
    /\ c_pc[t] = "clear_write"
    /\ map' = EmptyMap
    /\ lock_writer' = NoThread
    /\ c_pc' = [c_pc EXCEPT ![t] = "idle"]
    /\ last_call' = [op |-> "clear", keys |-> <<>>, ret |-> "cleared", result |-> <<>>]
    /\ UNCHANGED <<capacity, lock_readers, offered>>
    /\ UNCHANGED othervars_cache

\* Cache::new(capacity), lines 95-98
CacheInit ==
    /\ map = EmptyMap
    /\ capacity \in 0..MaxCapacity
    /\ lock_readers = {}
    /\ lock_writer = NoThread
    /\ c_pc = [t \in Threads |-> "idle"]
    /\ last_call = [op |-> "new", keys |-> <<>>, ret |-> "new", result |-> <<>>]
    /\ offered = {}

CacheOff ==
    /\ map = EmptyMap
    /\ capacity = 0
    /\ lock_readers = {}
    /\ lock_writer = NoThread
    /\ c_pc = [t \in Threads |-> "off"]
    /\ last_call = [op |-> "off", keys |-> <<>>, ret |-> "off", result |-> <<>>]
    /\ offered = {}

CacheNext ==
    \E t \in Threads :
        \/ GetCall(t)
        \/ GetRead(t)
        \/ SetCall(t)
        \/ SetCheck(t)
        \/ SetTryWrite(t)
        \/ SetWrite(t)
        \/ ClearCall(t)
        \/ ClearLock(t)
        \/ ClearWrite(t)

(***************************************************************************)
(* The cache's claims.                                                     *)
(***************************************************************************)
SizeWithinCapacity ==
    /\ MapLen(map) <= capacity
    /\ capacity = 0 =>
         /\ map = EmptyMap
         /\ (last_call.op = "get" /\ last_call.ret = "Some") =>
               \A i \in 1..Len(last_call.result) : last_call.result[i] = None

\* a step that finds the cache at capacity changes nothing in it, unless it
\* is the step of clear
FullCacheKeepsMap ==
    MapLen(map) >= capacity => (map' = map \/ \E t \in Threads : ClearWrite(t))

\* C4: the number of stored entries never exceeds capacity, whatever the
\* interleaving of the threads' calls; set_values on a cache at capacity
\* adds nothing; with capacity 0 the cache stays empty and get_values
\* returns only misses.
C4_SizeWithinCapacity == [](SizeWithinCapacity) /\ [][FullCacheKeepsMap]_vars

\* a set_values call returned at once because the cache was full
C4_Witness ==
    /\ last_call.op = "set" /\ last_call.ret = "full"
    /\ capacity > 0
    /\ MapLen(map) = capacity
    /\ \E t \in Threads : c_pc[t] = "set_try_write"

\* every step of get_values and set_values can be taken at once, whatever
\* the other threads hold
NeverWaits ==
    \A t \in Threads :
        /\ c_pc[t] = "idle" => (ENABLED GetCall(t)) /\ (ENABLED SetCall(t))
        /\ c_pc[t] = "get_read" => ENABLED GetRead(t)
        /\ c_pc[t] = "set_check" => ENABLED SetCheck(t)
        /\ c_pc[t] = "set_try_write" => ENABLED SetTryWrite(t)
        /\ c_pc[t] = "set_write" => ENABLED SetWrite(t)

\* get_values under a held write lock returns None in that very step;
\* set_values that finds the lock taken returns in that step, map untouched
SkipsWhenLocked ==
    \A t \in Threads :
        /\ (GetCall(t) /\ lock_writer # NoThread) =>
              /\ c_pc'[t] = "idle"
              /\ last_call'.op = "get" /\ last_call'.ret = "None"
        /\ (SetCall(t) /\ lock_writer # NoThread) =>
              c_pc'[t] = "idle" /\ map' = map
        /\ (SetTryWrite(t) /\ (lock_writer # NoThread \/ lock_readers # {})) =>
              c_pc'[t] = "idle" /\ map' = map /\ lock_writer' = lock_writer
        /\ ((SetCall(t) \/ SetTryWrite(t)) /\ c_pc'[t] = "idle") => map' = map

\* C5: get_values and set_values never wait for the lock: under a held
\* write lock get_values completes with None, set_values that cannot take
\* the lock at once completes with the map unchanged, and no step of
\* either call depends on another thread releasing the lock.
C5_NeverWaits == [](NeverWaits) /\ [][SkipsWhenLocked]_vars

\* a reader got None while a writer holds the lock
C5_Witness ==
    /\ last_call.op = "get" /\ last_call.ret = "None"
    /\ lock_writer # NoThread
    /\ \E t \in Threads : c_pc[t] = "idle"

\* the per-word computation the cache memoizes
Computed == [k \in Keys |-> IF k = "k1" THEN "v1" ELSE "v2"]

\* C6: a list returned by get_values has one entry per requested key, in
\* order, and each hit for key k is a value given to an earlier set_values
\* call for k; so when every call stores Computed[k] for k, a hit is
\* Computed[k], the result had without the cache.
C6_Transparent ==
    (last_call.op = "get" /\ last_call.ret = "Some") =>
        /\ Len(last_call.result) = Len(last_call.keys)
        /\ \A i \in 1..Len(last_call.result) :
              last_call.result[i] # None =>
                  /\ <<last_call.keys[i], last_call.result[i]>> \in offered
                  /\ ((\A p \in offered : p[2] = Computed[p[1]]) =>
                         last_call.result[i] = Computed[last_call.keys[i]])

\* a get_values of two keys with one hit and one miss
C6_Witness ==
    /\ last_call.op = "get" /\ last_call.ret = "Some"
    /\ Len(last_call.result) = 2
    /\ last_call.result[1] = None
    /\ last_call.result[2] # None

(***************************************************************************)
(* Encoding (tokenizer/encoding.rs): the parallel vectors and the list of  *)
(* overflowing encodings.  words holds NoWord for None.                    *)
(***************************************************************************)
NoWord == -1

EncodingNew(ids, type_ids, tokens, words, offsets, special_mask, attention_mask, overflowing) ==
    [ids |-> ids, type_ids |-> type_ids, tokens |-> tokens, words |-> words,
     offsets |-> offsets, special_tokens_mask |-> special_mask,
     attention_mask |-> attention_mask, overflowing |-> overflowing]

\* Encoding::default()
EncodingDefault == EncodingNew(<<>>, <<>>, <<>>, <<>>, <<>>, <<>>, <<>>, <<>>)

\* Encoding::from_tokens(tokens, type_id)
FromTokens(toks, type_id) ==
    EncodingNew([k \in 1..Len(toks) |-> toks[k].id],
                [k \in 1..Len(toks) |-> type_id],
                [k \in 1..Len(toks) |-> toks[k].value],
                [k \in 1..Len(toks) |-> toks[k].word],
                [k \in 1..Len(toks) |-> toks[k].offsets],
                [k \in 1..Len(toks) |-> 0],
                [k \in 1..Len(toks) |-> 1],
                <<>>)

\* Encoding::len()
EncLen(e) == Len(e.ids)

RECURSIVE Flatten(_)
Flatten(seqs) == IF seqs = <<>> THEN <<>> ELSE Head(seqs) \o Flatten(Tail(seqs))

\* where the offsets of a merged encoding go on from, with growing_offsets
MaxEnd(offsets) ==
    IF offsets = <<>> THEN 0
    ELSE SetMax({offsets[k][2] : k \in 1..Len(offsets)})

\* Encoding::merge_with(pair, growing_offsets): the vectors are
\* concatenated; the overflowing parts of both sides are combined
RECURSIVE MergeWith(_, _, _)
MergeWith(e, pair, growing_offsets) ==
    LET shift == IF growing_offsets THEN MaxEnd(e.offsets) ELSE 0
        of_self == Flatten([k \in 1..Len(e.overflowing) |->
                      <<MergeWith(e.overflowing[k], pair, growing_offsets)>>
                      \o [j \in 1..Len(pair.overflowing) |->
                             MergeWith(e.overflowing[k], pair.overflowing[j],
                                       growing_offsets)]])
        of_pair == [j \in 1..Len(pair.overflowing) |->
                      MergeWith(e, pair.overflowing[j], growing_offsets)]
    IN  EncodingNew(e.ids \o pair.ids,
                    e.type_ids \o pair.type_ids,
                    e.tokens \o pair.tokens,
                    e.words \o pair.words,
                    e.offsets \o [k \in 1..Len(pair.offsets) |->
                                    <<pair.offsets[k][1] + shift,
                                      pair.offsets[k][2] + shift>>],
                    e.special_tokens_mask \o pair.special_tokens_mask,
                    e.attention_mask \o pair.attention_mask,
                    of_self \o of_pair)

\* Encoding::merge(encodings, growing_offsets)
RECURSIVE MergeFrom(_, _, _)
MergeFrom(acc, encodings, growing_offsets) ==
    IF encodings = <<>> THEN acc
    ELSE MergeFrom(MergeWith(acc, Head(encodings), growing_offsets),
                   Tail(encodings), growing_offsets)

Merge(encodings, growing_offsets) ==
    IF encodings = <<>> THEN EncodingDefault
    ELSE MergeFrom(Head(encodings), Tail(encodings), growing_offsets)

\* the positions a..b (1-based, inclusive) of every vector, no overflowing
Vectors(e, a, b) ==
    EncodingNew(SubSeq(e.ids, a, b), SubSeq(e.type_ids, a, b),
                SubSeq(e.tokens, a, b), SubSeq(e.words, a, b),
                SubSeq(e.offsets, a, b), SubSeq(e.special_tokens_mask, a, b),
                SubSeq(e.attention_mask, a, b), <<>>)

Min(a, b) == IF a <= b THEN a ELSE b

\* the overflowing parts of Encoding::truncate: each is the last `stride`
\* positions of the part before it and the next part_size dropped positions
RECURSIVE OverflowParts(_, _, _, _, _)
OverflowParts(prev, dropped, part_size, part_id, stride) ==
    IF part_size * part_id >= EncLen(dropped) THEN <<>>
    ELSE LET cur == MergeWith(
                        Vectors(prev, EncLen(prev) - stride + 1, EncLen(prev)),
                        Vectors(dropped, part_size * part_id + 1,
                                Min(part_size * (part_id + 1), EncLen(dropped))),
                        FALSE)
         IN  <<cur>> \o OverflowParts(cur, dropped, part_size, part_id + 1, stride)

\* Encoding::truncate(max_len, stride)
Truncate(e, max_len, stride) ==
    IF max_len >= EncLen(e) THEN e
    ELSE IF max_len = 0
         THEN [EncodingDefault EXCEPT !.overflowing = <<Vectors(e, 1, EncLen(e))>>]
    ELSE LET kept == Vectors(e, 1, max_len)
             dropped == Vectors(e, max_len + 1, EncLen(e))
         IN  [kept EXCEPT !.overflowing =
                 OverflowParts(kept, dropped, max_len - stride, 0, stride)]

\* n copies of x
Repeat(x, n) == [k \in 1..n |-> x]

\* Encoding::pad(target_length, pad_id, pad_type_id, pad_token, direction):
\* the overflowing parts first, then the encoding itself
RECURSIVE Pad(_, _, _)
Pad(e, target_length, p) ==
    LET ov == [k \in 1..Len(e.overflowing) |-> Pad(e.overflowing[k], target_length, p)]
        n == target_length - EncLen(e)
        padding == EncodingNew(Repeat(p.pad_id, n), Repeat(p.pad_type_id, n),
                               Repeat(p.pad_token, n), Repeat(NoWord, n),
                               Repeat(<<0, 0>>, n), Repeat(1, n), Repeat(0, n), <<>>)
        left == IF p.direction = "Left" THEN padding ELSE Vectors(e, 1, EncLen(e))
        right == IF p.direction = "Left" THEN Vectors(e, 1, EncLen(e)) ELSE padding
    IN  IF EncLen(e) >= target_length THEN [e EXCEPT !.overflowing = ov]
        ELSE [MergeWith(left, right, FALSE) EXCEPT !.overflowing = ov]

(***************************************************************************)
(* utils/padding.rs and utils/truncation.rs.  An Option<Encoding> is a     *)
(* sequence of no or one encoding.                                         *)
(***************************************************************************)
\* (mutant) pad_encodings taking the length of the first encoding as the
\* BatchLongest target
PadEncodingsToFirst(encodings, p) ==
    IF encodings = <<>> THEN encodings
    ELSE LET pad_length ==
                 IF p.strategy = "BatchLongest"
                 THEN EncLen(encodings[1])
                 ELSE p.size
         IN  [k \in 1..Len(encodings) |-> Pad(encodings[k], pad_length, p)]

\* pad_encodings(encodings, params)
PadEncodings(encodings, p) ==
    IF encodings = <<>> THEN encodings
    ELSE LET pad_length ==
                 IF p.strategy = "BatchLongest"
                 THEN SetMax({EncLen(encodings[k]) : k \in 1..Len(encodings)})
                 ELSE p.size
         IN  [k \in 1..Len(encodings) |-> Pad(encodings[k], pad_length, p)]

\* LongestFirst: one position at a time off the longer side, the pair on a tie
RECURSIVE LongestFirst(_, _, _)
LongestFirst(n_first, n_second, to_remove) ==
    IF to_remove = 0 THEN <<n_first, n_second>>
    ELSE IF n_first > n_second
         THEN LongestFirst(n_first - 1, n_second, to_remove - 1)
         ELSE LongestFirst(n_first, n_second - 1, to_remove - 1)

\* truncate_encodings(encoding, pair_encoding, params)
TruncateEncodings(encoding, pair, p) ==
    LET n_pair == IF pair = <<>> THEN 0 ELSE EncLen(pair[1])
        total_length == EncLen(encoding) + n_pair
        to_remove == total_length - p.max_length
        same == [kind |-> "ok", encoding |-> encoding, pair |-> pair]
    IN  IF p.max_length = 0 \/ total_length <= p.max_length THEN same
        ELSE IF p.strategy = "LongestFirst"
        THEN LET n == LongestFirst(EncLen(encoding), n_pair, to_remove) IN
             [kind |-> "ok",
              encoding |-> Truncate(encoding, n[1], p.stride),
              pair |-> [k \in 1..Len(pair) |-> Truncate(pair[k], n[2], p.stride)]]
        ELSE IF p.strategy = "OnlySecond" /\ pair = <<>>
        THEN [kind |-> "err"]
        ELSE LET target == IF p.strategy = "OnlyFirst" THEN encoding ELSE pair[1]
                 cut == Truncate(target, EncLen(target) - to_remove, p.stride)
             IN  IF EncLen(target) <= to_remove THEN [kind |-> "err"]
                 ELSE IF p.strategy = "OnlyFirst"
                 THEN [kind |-> "ok", encoding |-> cut, pair |-> pair]
                 ELSE [kind |-> "ok", encoding |-> encoding, pair |-> <<cut>>]

(***************************************************************************)
(* NormalizedString (tokenizer/normalizer.rs): original, normalized and,   *)
(* for every byte of normalized, the range of original it stands for.      *)
(***************************************************************************)
\* the NormalizedString of a text no normalizer changed
Identity(text) ==
    [original |-> text, normalized |-> text,
     alignments |-> [k \in 1..Len(text) |-> <<k - 1, k>>]]

\* NormalizedString::len()
NLen(n) == Len(n.normalized)

\* NormalizedString::len_original()
LenOriginal(n) == Len(n.original)

\* NormalizedString::convert_offsets(Range::Normalized(a..b)): the union of
\* the ranges of the bytes a..b; None (no range) for an empty range or one
\* that leaves the map
ConvertOffsets(n, a, b) ==
    IF a < b /\ b <= Len(n.alignments)
    THEN <<  <<n.alignments[a + 1][1], n.alignments[b][2]>>  >>
    ELSE <<>>

\* NormalizedString::prepend(s)
Prepend(n, s) ==
    [n EXCEPT !.normalized = s \o @,
              !.alignments = Repeat(<<0, 0>>, Len(s)) \o @]

(***************************************************************************)
(* The pre-tokenizers (pre_tokenizers/*.rs).                               *)
(***************************************************************************)
\* s.chars(): the characters of s, each the bytes it is made of
RECURSIVE CharsOf(_)
CharsOf(s) ==
    IF s = <<>> THEN <<>>
    ELSE IF Head(s) \in {"x1", "y1"} /\ Len(s) >= 2
         THEN <<SubSeq(s, 1, 2)>> \o CharsOf(SubSeq(s, 3, Len(s)))
         ELSE <<  <<Head(s)>>  >> \o CharsOf(Tail(s))

\* char::is_whitespace
IsWhitespace(c) == c \in {<<" ">>, <<"\t">>}

\* char::is_ascii_punctuation: the ranges 33-47, 58-64, 91-96 and 123-126
\* (the grave accent, 96, is no character of the texts of the model)
IsAsciiPunctuation(c) ==
    c \in {<<"!">>, <<"\"">>, <<"#">>, <<"$">>, <<"%">>, <<"&">>, <<"'">>, <<"(">>,
           <<")">>, <<"*">>, <<"+">>, <<",">>, <<"-">>, <<".">>, <<"/">>, <<":">>,
           <<";">>, <<"<">>, <<"=">>, <<">">>, <<"?">>, <<"@">>, <<"[">>, <<"\\">>,
           <<"]">>, <<"^">>, <<"_">>, <<"{">>, <<"|">>, <<"}">>, <<"~">>}

\* is_bert_punc, bert.rs lines 6-8: the ASCII punctuation, or a character
\* of a Unicode punctuation category (the two-byte "y1" "x2" here)
IsBertPunc(c) == IsAsciiPunctuation(c) \/ c = <<"y1", "x2">>

\* the closure BertPreTokenizer gives to split_on: (is_delim, include)
BertShouldSplit(c) ==
    IF IsWhitespace(c) THEN <<TRUE, FALSE>>
    ELSE IF IsBertPunc(c) THEN <<TRUE, TRUE>>
    ELSE <<FALSE, FALSE>>

PreToken(token, a, b) == [token |-> token, offsets |-> <<a, b>>]

\* (mutant) split_on counting characters where it counts bytes
RECURSIVE SplitOnCountingChars(_, _, _, _)
SplitOnCountingChars(chars, offset, word, words) ==
    IF chars = <<>>
    THEN IF word # <<>>
         THEN Append(words, PreToken(word, offset - Len(word), offset))
         ELSE words
    ELSE LET c == Head(chars)
             d == BertShouldSplit(c)
             w1 == IF d[1] /\ word # <<>>
                   THEN Append(words, PreToken(word, offset - Len(word), offset))
                   ELSE words
             w2 == IF d[1] /\ d[2]
                   THEN Append(w1, PreToken(c, offset, offset + 1))
                   ELSE w1
         IN  SplitOnCountingChars(Tail(chars), offset + 1,
                                  IF d[1] THEN <<>> ELSE word \o c, w2)

\* split_on: the for_each over s.chars() from the locals (offset, word,
\* words), and the last word
RECURSIVE SplitOn(_, _, _, _)
SplitOn(chars, offset, word, words) ==
    IF chars = <<>>
    THEN IF word # <<>>
         THEN Append(words, PreToken(word, offset - Len(word), offset))
         ELSE words
    ELSE LET c == Head(chars)
             d == BertShouldSplit(c)
             w1 == IF d[1] /\ word # <<>>
                   THEN Append(words, PreToken(word, offset - Len(word), offset))
                   ELSE words
             w2 == IF d[1] /\ d[2]
                   THEN Append(w1, PreToken(c, offset, offset + Len(c)))
                   ELSE w1
         IN  SplitOn(Tail(chars), offset + Len(c),
                     IF d[1] THEN <<>> ELSE word \o c, w2)

\* (mutant) the for_each pushing the whitespace character itself
RECURSIVE MetaspaceSplitKeepWhitespace(_, _, _, _, _)
MetaspaceSplitKeepWhitespace(chars, offset, word, words, replacement) ==
    IF chars = <<>>
    THEN IF word # <<>>
         THEN Append(words, PreToken(Flatten(word), offset - Len(word), offset))
         ELSE words
    ELSE LET c == Head(chars)
             w1 == IF IsWhitespace(c) /\ word # <<>>
                   THEN Append(words, PreToken(Flatten(word), offset - Len(word), offset))
                   ELSE words
         IN  MetaspaceSplitKeepWhitespace(Tail(chars), offset + 1,
                                          IF IsWhitespace(c) THEN <<c>> ELSE Append(word, c),
                                          w1, replacement)

\* Metaspace::pre_tokenize, the for_each: word is a Vec<char>, offset counts
\* characters
RECURSIVE MetaspaceSplit(_, _, _, _, _)
MetaspaceSplit(chars, offset, word, words, replacement) ==
    IF chars = <<>>
    THEN IF word # <<>>
         THEN Append(words, PreToken(Flatten(word), offset - Len(word), offset))
         ELSE words
    ELSE LET c == Head(chars)
             w1 == IF IsWhitespace(c) /\ word # <<>>
                   THEN Append(words, PreToken(Flatten(word), offset - Len(word), offset))
                   ELSE words
         IN  MetaspaceSplit(Tail(chars), offset + 1,
                            IF IsWhitespace(c) THEN <<replacement>> ELSE Append(word, c),
                            w1, replacement)

\* CharDelimiterSplit::pre_tokenize, the for_each
RECURSIVE DelimiterSplit(_, _, _, _, _)
DelimiterSplit(chars, offset, word, words, delimiter) ==
    IF chars = <<>>
    THEN IF word # <<>>
         THEN Append(words, PreToken(Flatten(word), offset - Len(word), offset))
         ELSE words
    ELSE LET c == Head(chars)
             w1 == IF c = delimiter /\ word # <<>>
                   THEN Append(words, PreToken(Flatten(word), offset - Len(word), offset))
                   ELSE words
         IN  DelimiterSplit(Tail(chars), offset + 1,
                            IF c = delimiter THEN <<>> ELSE Append(word, c),
                            w1, delimiter)

\* PreTokenizer::pre_tokenize(&mut normalized) of the pre-tokenizer pt: the
\* pre-tokens and the NormalizedString as the pre-tokenizer left it
PreTokenizeWith(pt, n) ==
    IF pt.kind = "None"
    THEN [words |-> <<PreToken(n.normalized, 0, NLen(n))>>, normalized |-> n]
    ELSE IF pt.kind = "Bert"
    THEN [words |-> SplitOn(CharsOf(n.normalized), 0, <<>>, <<>>), normalized |-> n]
    ELSE IF pt.kind = "CharDelimiterSplit"
    THEN [words |-> DelimiterSplit(CharsOf(n.normalized), 0, <<>>, <<>>, pt.delimiter),
          normalized |-> n]
    ELSE LET m == IF pt.add_prefix_space
                        /\ ~(n.normalized # <<>> /\ Head(n.normalized) = " ")
                  THEN Prepend(n, <<" ">>) ELSE n
         IN  [words |-> MetaspaceSplit(CharsOf(m.normalized), 0, <<>>, <<>>, pt.replacement),
              normalized |-> m]

\* Tokenizer::pre_tokenize(&mut normalized)
PreTokenize(n) == PreTokenizeWith(tk.pre_tokenizer, n)

(***************************************************************************)
(* Model::tokenize for the WordPiece model, as the function the steps      *)
(* WPTooLong .. WPReturn compute: kind is "ok" (with the tokens), "err"    *)
(* (MissingUnkToken), "panic" or "diverge" (the loop never ends).          *)
(***************************************************************************)
RECURSIVE TokenizeWord(_, _, _, _)
TokenizeWord(token, offs, idx, st) ==
    IF st >= Len(token) THEN [kind |-> "ok", tokens |-> <<>>]
    ELSE LET r == ForEnds(token, st) IN
         IF r.kind = "panic" THEN [kind |-> "panic"]
         ELSE IF r.kind = "match"
         THEN IF r.end = st THEN [kind |-> "diverge"]
              ELSE LET rest == TokenizeWord(token, offs, idx, r.end) IN
                   IF rest.kind # "ok" THEN rest
                   ELSE [kind |-> "ok",
                         tokens |-> <<MatchToken(token, offs, idx, st, r.end)>>
                                        \o rest.tokens]
         ELSE IF ~InVocab(unk_token) THEN [kind |-> "err"]
         ELSE LET rest == TokenizeWord(token, offs, idx, st + 1) IN
              IF rest.kind # "ok" THEN rest
              ELSE [kind |-> "ok",
                    tokens |-> <<UnkToken(offs, idx)>> \o rest.tokens]

\* the body of the for loop for one pre-token, lines 214-261
TokenizePreToken(w, idx) ==
    IF CharCount(w.token) > max_input_chars_per_word
    THEN IF InVocab(unk_token)
         THEN [kind |-> "ok", tokens |-> <<UnkToken(w.offsets, idx)>>]
         ELSE [kind |-> "err"]
    ELSE TokenizeWord(w.token, w.offsets, idx, 0)

\* the tokens of a pre-token, then those of the pre-tokens after it
ThenTokens(first, rest) ==
    IF first.kind # "ok" THEN first
    ELSE IF rest.kind # "ok" THEN rest
    ELSE [kind |-> "ok", tokens |-> first.tokens \o rest.tokens]

RECURSIVE Tokenize(_, _)
Tokenize(words, idx) ==
    IF idx >= Len(words) THEN [kind |-> "ok", tokens |-> <<>>]
    ELSE ThenTokens(TokenizePreToken(words[idx + 1], idx), Tokenize(words, idx + 1))

(***************************************************************************)
(* Tokenizer::encode_single_sequence.  A chunk is an item of the list      *)
(* AddedVocabulary::extract_and_normalize returns: a NormalizedString and  *)
(* the id of the added token it matched, if any.                           *)
(***************************************************************************)
\* (mutant) the Encoding of a matched chunk built without its
\* special_tokens_mask
MatchedEncodingNoMask(chunk, type_id) ==
    EncodingNew(<<chunk.id>>, <<type_id>>, <<chunk.normalized.normalized>>, <<0>>,
                << <<0, NLen(chunk.normalized)>> >>, <<>>, <<1>>, <<>>)

\* the Encoding of a matched chunk, lines 534-547
MatchedEncoding(chunk, type_id) ==
    EncodingNew(<<chunk.id>>, <<type_id>>, <<chunk.normalized.normalized>>, <<0>>,
                << <<0, NLen(chunk.normalized)>> >>, <<0>>, <<1>>, <<>>)

\* the closure of the map, lines 532-557: (Encoding, NormalizedString) of a chunk
\* Encoding::from_tokens on what the model returned, lines 553-555
TokensResult(t, normalized, type_id) ==
    IF t.kind # "ok" THEN [kind |-> t.kind]
    ELSE [kind |-> "ok", encoding |-> FromTokens(t.tokens, type_id),
          normalized |-> normalized]

\* self.model.tokenize(pre_tokenized), lines 551-552
ModelResult(p, type_id) == TokensResult(Tokenize(p.words, 0), p.normalized, type_id)

ChunkResult(chunk, type_id) ==
    IF chunk.matched
    THEN [kind |-> "ok", encoding |-> MatchedEncoding(chunk, type_id),
          normalized |-> chunk.normalized]
    ELSE ModelResult(PreTokenize(chunk.normalized), type_id)

\* the for_each over get_offsets_mut(), lines 571-580
ConvertedOffsets(encoding, normalized, offset) ==
    [k \in 1..Len(encoding.offsets) |->
        LET o == encoding.offsets[k]
            c == ConvertOffsets(normalized, o[1], o[2])
            r == IF c = <<>> THEN o ELSE c[1]
        IN  <<r[1] + offset, r[2] + offset>>]

\* the loop over all_encodings.zip(all_normalized), lines 566-587
RECURSIVE MergeChunks(_, _, _)
MergeChunks(rs, offset, final_encoding) ==
    IF rs = <<>> THEN final_encoding
    ELSE LET r == Head(rs)
             encoding == [r.encoding EXCEPT
                             !.offsets = ConvertedOffsets(r.encoding, r.normalized, offset)]
         IN  MergeChunks(Tail(rs), offset + LenOriginal(r.normalized),
                         MergeWith(final_encoding, encoding, FALSE))

\* ResultShunt::process: the kind of the first chunk that fails, or "ok"
FirstFailure(rs) ==
    IF \A k \in 1..Len(rs) : rs[k].kind = "ok" THEN "ok"
    ELSE rs[CHOOSE k \in 1..Len(rs) :
                /\ rs[k].kind # "ok"
                /\ \A j \in 1..(k - 1) : rs[j].kind = "ok"].kind

\* the for loop over the subsequences, lines 527-589: "empty" when a
\* subsequence had no chunk and the function returned Encoding::default()
\* the results of the chunks of one subsequence, lines 528-557
ChunkResults(chunks, type_id) ==
    [k \in 1..Len(chunks) |-> ChunkResult(chunks[k], type_id)]

RECURSIVE EncodeSubseqs(_, _, _)
RECURSIVE SubseqStep(_, _, _, _)
SubseqStep(rs, rest, type_id, sequence_encodings) ==
    IF FirstFailure(rs) # "ok" THEN [kind |-> FirstFailure(rs)]
    ELSE IF rs = <<>> THEN [kind |-> "empty"]
    ELSE EncodeSubseqs(rest, type_id,
            Append(sequence_encodings, MergeChunks(rs, 0, EncodingDefault)))

EncodeSubseqs(subseqs, type_id, sequence_encodings) ==
    IF subseqs = <<>> THEN [kind |-> "ok", encodings |-> sequence_encodings]
    ELSE SubseqStep(ChunkResults(Head(subseqs), type_id), Tail(subseqs), type_id,
                    sequence_encodings)

\* what encode_single_sequence returns, lines 561-563 and 591
SequenceResult(r, pre_tokenized) ==
    IF r.kind = "empty" THEN [kind |-> "ok", encoding |-> EncodingDefault]
    ELSE IF r.kind # "ok" THEN [kind |-> r.kind]
    ELSE [kind |-> "ok", encoding |-> Merge(r.encodings, ~pre_tokenized)]

\* encode_single_sequence(sequence, type_id), lines 520-592
EncodeSingleSequence(sequence, type_id) ==
    SequenceResult(EncodeSubseqs(sequence.subseqs, type_id, <<>>),
                   sequence.pre_tokenized)

(***************************************************************************)
(* Tokenizer::post_process and the post-processors.                        *)
(***************************************************************************)
\* PostProcessor::default_process, lines 88-100
DefaultProcess(encoding, pair) ==
    IF pair = <<>> THEN encoding ELSE MergeWith(encoding, pair[1], FALSE)

\* a PostProcessor that puts one special token in front of the encoding
ClsEncoding(proc) ==
    EncodingNew(<<proc.cls_id>>, <<0>>, <<proc.cls_token>>, <<NoWord>>, << <<0, 0>> >>,
                <<1>>, <<1>>, <<>>)

\* PostProcessor::added_tokens(is_pair)
AddedTokens(proc, is_pair) == 1

\* PostProcessor::process(encoding, pair_encoding, add_special_tokens)
Process(proc, encoding, pair, add_special) ==
    IF add_special
    THEN DefaultProcess(MergeWith(ClsEncoding(proc), encoding, FALSE), pair)
    ELSE DefaultProcess(encoding, pair)

\* post_process(encoding, pair_encoding, add_special_tokens), lines 830-876.
\* trunc.max_length - n_added_tokens of line 846 is a usize subtraction:
\* below zero it panics in a build with overflow checks, and wraps to a
\* max_length near usize::MAX, above every total length, in a build
\* without: truncate_encodings then returns its arguments
PostProcess(encoding, pair, add_special) ==
    LET n_added_tokens == IF tk.post_processor # <<>>
                          THEN AddedTokens(tk.post_processor[1], pair # <<>>)
                          ELSE 0
        trunc == tk.truncation[1]
        underflow == /\ tk.truncation # <<>>
                     /\ add_special /\ n_added_tokens > 0
                     /\ trunc.max_length < n_added_tokens
        t == IF tk.truncation = <<>> \/ underflow
             THEN [kind |-> "ok", encoding |-> encoding, pair |-> pair]
             ELSE IF add_special /\ n_added_tokens > 0
             THEN TruncateEncodings(encoding, pair,
                     [trunc EXCEPT !.max_length = @ - n_added_tokens])
             ELSE TruncateEncodings(encoding, pair, trunc)
        final_encoding == IF tk.post_processor # <<>>
                          THEN Process(tk.post_processor[1], t.encoding, t.pair, add_special)
                          ELSE DefaultProcess(t.encoding, t.pair)
    IN  IF underflow /\ tk.overflow_checks THEN [kind |-> "panic"]
        ELSE IF t.kind # "ok" THEN [kind |-> t.kind]
        ELSE [kind |-> "ok",
              encoding |-> IF tk.padding # <<>>
                           THEN PadEncodings(<<final_encoding>>, tk.padding[1])[1]
                           ELSE final_encoding]

\* the two encode_single_sequence calls of encode, lines 632-642
SequencePair(first, second) ==
    IF first.kind # "ok" THEN [kind |-> first.kind]
    ELSE IF second = <<>>
    THEN [kind |-> "ok", encoding |-> first.encoding, pair |-> <<>>]
    ELSE IF second[1].kind # "ok" THEN [kind |-> second[1].kind]
    ELSE [kind |-> "ok", encoding |-> first.encoding, pair |-> <<second[1].encoding>>]

EncodeSequencesOf(input) ==
    SequencePair(EncodeSingleSequence(input.first, 0),
                 [k \in 1..Len(input.pair) |-> EncodeSingleSequence(input.pair[k], 1)])

\* self.post_process(encoding, pair_encoding, add_special_tokens), line 645
PostProcessOf(s, add_special) ==
    IF s.kind # "ok" THEN [kind |-> s.kind]
    ELSE PostProcess(s.encoding, s.pair, add_special)

\* encode(input, add_special_tokens), lines 626-646
Encode(input, add_special) == PostProcessOf(EncodeSequencesOf(input), add_special)

(***************************************************************************)
(* The tokenizers and the inputs of the encode_batch calls checked.        *)
(***************************************************************************)
MaxBatch == 2          \* number of inputs of an encode_batch call
FixedLen == 3          \* the n of PaddingStrategy::Fixed(n)

\* the vocabulary of the WordPiece model; "x1" "x2" is the two-byte
\* character Metaspace puts for a space
EncVocab ==
    (<<"a">> :> 0) @@ (<<"b">> :> 1) @@ (<<"a", "b">> :> 2) @@ (unk_token :> 3)
        @@ (<<"x1", "x2", "b">> :> 4) @@ (<<"x1", "x2", "a">> :> 5)

\* the added tokens: ids follow the model's, "[SEP]" is special
SepToken == <<"[", "S", "E", "P", "]">>
UserToken == <<"<", "t", ">">>
ClsToken == <<"[", "C", "L", "S", "]">>
PadToken == <<"[", "P", "A", "D", "]">>
SepId == 6
UserId == 7
ClsId == 8
SpecialIds == {SepId, ClsId}

\* the chunks extract_and_normalize gives
Unmatched(n) == [normalized |-> n, matched |-> FALSE, id |-> 0]
Matched(text, id) == [normalized |-> Identity(text), matched |-> TRUE, id |-> id]

\* " a" normalized to "a" by a normalizer that strips whitespace
Stripped ==
    [original |-> <<" ", "a">>, normalized |-> <<"a">>, alignments |-> << <<1, 2>> >>]

Raw(chunks) == [pre_tokenized |-> FALSE, subseqs |-> <<chunks>>]
PreTokenized(subseqs) == [pre_tokenized |-> TRUE, subseqs |-> subseqs]
Single(s1) == [first |-> s1, pair |-> <<>>]
Dual(s1, s2) == [first |-> s1, pair |-> <<s2>>]

EncInputs ==
    { \* "a[SEP]a b"
      Single(Raw(<<Unmatched(Identity(<<"a">>)), Matched(SepToken, SepId),
                   Unmatched(Identity(<<"a", " ", "b">>))>>)),
      \* "ab<t>"
      Single(Raw(<<Unmatched(Identity(<<"a", "b">>)), Matched(UserToken, UserId)>>)),
      \* (" a", "a b")
      Dual(Raw(<<Unmatched(Stripped)>>),
           Raw(<<Unmatched(Identity(<<"a", " ", "b">>))>>)),
      \* ["a b", "b[SEP]"]
      Single(PreTokenized(<< <<Unmatched(Identity(<<"a", " ", "b">>))>>,
                             <<Unmatched(Identity(<<"b">>)), Matched(SepToken, SepId)>> >>)),
      \* "!"
      Single(Raw(<<Unmatched(Identity(<<"!">>))>>)),
      \* ("", "a")
      Dual(Raw(<<>>), Raw(<<Unmatched(Identity(<<"a">>))>>)) }

Batches == UNION {[1..n -> EncInputs] : n \in 1..MaxBatch}

PreTokenizers ==
    { [kind |-> "None"], [kind |-> "Bert"],
      [kind |-> "CharDelimiterSplit", delimiter |-> <<" ">>],
      [kind |-> "Metaspace", replacement |-> <<"x1", "x2">>, add_prefix_space |-> FALSE],
      [kind |-> "Metaspace", replacement |-> <<"x1", "x2">>, add_prefix_space |-> TRUE] }

PaddingOf(strategy, direction) ==
    [strategy |-> strategy, size |-> FixedLen, direction |-> direction,
     pad_id |-> 0, pad_type_id |-> 0, pad_token |-> PadToken]

TruncationOf(max_length, stride, strategy) ==
    [max_length |-> max_length, stride |-> stride, strategy |-> strategy]

ClsProcessor == [cls_id |-> ClsId, cls_token |-> ClsToken]

\* post_processor, truncation, padding, the add_special_tokens argument,
\* and whether the build checks integer overflow (a debug build does, a
\* release build does not)
Settings ==
    { <<  <<>>, <<>>, <<>>, FALSE, TRUE  >>,
      <<  <<>>, <<>>, <<PaddingOf("BatchLongest", "Right")>>, FALSE, TRUE  >>,
      <<  <<>>, <<TruncationOf(2, 0, "LongestFirst")>>,
              <<PaddingOf("Fixed", "Left")>>, FALSE, FALSE  >>,
      <<  <<ClsProcessor>>, <<TruncationOf(3, 1, "OnlyFirst")>>, <<>>, TRUE, TRUE  >>,
      <<  <<ClsProcessor>>, <<TruncationOf(2, 0, "OnlySecond")>>,
              <<PaddingOf("BatchLongest", "Left")>>, TRUE, FALSE  >>,
      <<  <<ClsProcessor>>, <<TruncationOf(3, 1, "LongestFirst")>>,
              <<PaddingOf("Fixed", "Right")>>, FALSE, TRUE  >>,
      <<  <<ClsProcessor>>, <<TruncationOf(0, 0, "LongestFirst")>>, <<>>, TRUE, TRUE  >>,
      <<  <<ClsProcessor>>, <<TruncationOf(0, 0, "LongestFirst")>>, <<>>, TRUE, FALSE  >> }

NotRun == [kind |-> "none"]

(***************************************************************************)
(* Tokenizer::encode_batch: one encode call per input, run in any order    *)
(* and interleaved (into_maybe_par_iter), collected by position, padded.   *)
(***************************************************************************)
\* encode for input i, first half: the encode_single_sequence calls
EncodeSequences(i) ==
    /\ e_pc = "run"
    /\ i \in 1..Len(inputs)
    /\ stage[i] = NotRun
    /\ \E s \in {EncodeSequencesOf(inputs[i])} :
         /\ stage' = [stage EXCEPT ![i] = s]
         /\ IF s.kind = "ok"
            THEN UNCHANGED <<results, done_order>>
            ELSE /\ results' = [results EXCEPT ![i] = [kind |-> s.kind]]
                 /\ done_order' = Append(done_order, i)
    /\ UNCHANGED <<tk, add_special_tokens, inputs, batch, error, e_pc>>
    /\ UNCHANGED othervars_enc

\* encode for input i, second half: post_process
EncodePostProcess(i) ==
    /\ e_pc = "run"
    /\ i \in 1..Len(inputs)
    /\ stage[i].kind = "ok"
    /\ results[i] = NotRun
    /\ results' = [results EXCEPT ![i] =
                      PostProcess(stage[i].encoding, stage[i].pair, add_special_tokens)]
    /\ done_order' = Append(done_order, i)
    /\ UNCHANGED <<tk, add_special_tokens, inputs, stage, batch, error, e_pc>>
    /\ UNCHANGED othervars_enc

AllReturned == \A i \in 1..Len(inputs) : results[i] # NotRun

\* (mutant) the encodings collected in the order the calls returned
CollectedAsReturned == [k \in 1..Len(inputs) |-> results[done_order[k]].encoding]

\* .collect::<Result<Vec<Encoding>>>(), lines 653-656: by position
Collected == [k \in 1..Len(inputs) |-> results[k].encoding]

\* every encode returned Ok: collect, pad the batch, return, lines 653-664
BatchReturn ==
    /\ e_pc = "run"
    /\ AllReturned
    /\ \A i \in 1..Len(inputs) : results[i].kind = "ok"
    /\ batch' = IF tk.padding # <<>>
                THEN PadEncodings(Collected, tk.padding[1])
                ELSE Collected
    /\ e_pc' = "ok"
    /\ UNCHANGED <<tk, add_special_tokens, inputs, stage, results, done_order, error>>
    /\ UNCHANGED othervars_enc

\* the inputs whose encode call did not return Ok, in the order the calls
\* returned
FailedInOrder == SelectSeq(done_order, LAMBDA i : results[i].kind # "ok")

\* (mutant) the error of the failing call that returned last
ReturnedErrorLast == FailedInOrder[Len(FailedInOrder)]

\* collect::<Result<Vec<Encoding>>>() on the (maybe parallel) iterator,
\* lines 654-657: the error of the failing call that returned first; run
\* sequentially the calls return in input order
ReturnedError == FailedInOrder[1]

\* an encode call failed or panicked, lines 654-657: `?` returns the error
\* collect gives, unless a panic of an encode call unwinds through
\* encode_batch
BatchFail ==
    /\ e_pc = "run"
    /\ AllReturned
    /\ FailedInOrder # <<>>
    /\ \/ /\ results[ReturnedError].kind = "err"
          /\ e_pc' = "err"
          /\ error' = ReturnedError
       \/ /\ \E i \in 1..Len(inputs) : results[i].kind = "panic"
          /\ e_pc' = "panic"
          /\ UNCHANGED error
    /\ UNCHANGED <<tk, add_special_tokens, inputs, stage, results, done_order, batch>>
    /\ UNCHANGED othervars_enc

EncInit ==
    /\ \E pt \in PreTokenizers, st \in Settings :
         /\ tk = [pre_tokenizer |-> pt, post_processor |-> st[1],
                  truncation |-> st[2], padding |-> st[3], overflow_checks |-> st[5]]
         /\ add_special_tokens = st[4]
    /\ inputs \in Batches
    /\ stage = [i \in 1..Len(inputs) |-> NotRun]
    /\ results = [i \in 1..Len(inputs) |-> NotRun]
    /\ done_order = <<>>
    /\ batch = <<>>
    /\ error = 0
    /\ e_pc = "run"

EncOff ==
    /\ tk = [pre_tokenizer |-> [kind |-> "None"], post_processor |-> <<>>,
             truncation |-> <<>>, padding |-> <<>>, overflow_checks |-> TRUE]
    /\ add_special_tokens = FALSE
    /\ inputs = <<>>
    /\ stage = <<>>
    /\ results = <<>>
    /\ done_order = <<>>
    /\ batch = <<>>
    /\ error = 0
    /\ e_pc = "off"

EncNext ==
    \/ \E i \in 1..MaxBatch : EncodeSequences(i)
    \/ \E i \in 1..MaxBatch : EncodePostProcess(i)
    \/ BatchReturn
    \/ BatchFail

\* the WordPiece model of the tokenizer, no tokenize call of its own running
WPModel ==
    /\ vocab = EncVocab
    /\ max_input_chars_per_word = DefaultMaxInputChars
    /\ sentence = <<>>
    /\ index = 0
    /\ start = 0
    /\ output_tokens = <<>>
    /\ wp_pc = "off"

(***************************************************************************)
(* The claims on encode and encode_batch.                                  *)
(***************************************************************************)
AddedIds == {SepId, UserId}

\* the sequences of input i that encode_single_sequence was called on
SequencesOf(i) == <<inputs[i].first>> \o inputs[i].pair

\* the encodings encode_single_sequence returned for input i
StagedOf(i) == <<stage[i].encoding>> \o stage[i].pair

\* the matched chunks of a sequence, in order
MatchedChunks(sequence) ==
    SelectSeq(Flatten(sequence.subseqs), LAMBDA c : c.matched)

\* the positions of an encoding that hold the id of an added token
RECURSIVE AddedPositions(_, _)
AddedPositions(e, k) ==
    IF k > EncLen(e) THEN <<>>
    ELSE (IF e.ids[k] \in AddedIds THEN <<k>> ELSE <<>>) \o AddedPositions(e, k + 1)

MatchedAsClaimed(e, sequence) ==
    LET ps == AddedPositions(e, 1)
        ms == MatchedChunks(sequence)
    IN  /\ Len(ps) = Len(ms)
        /\ \A j \in 1..Len(ps) :
              /\ e.ids[ps[j]] = ms[j].id
              /\ e.tokens[ps[j]] = ms[j].normalized.normalized
              /\ e.words[ps[j]] = 0
              /\ e.attention_mask[ps[j]] = 1
              /\ e.special_tokens_mask[ps[j]] =
                     IF ms[j].id \in SpecialIds THEN 1 ELSE 0

\* C7: every chunk matched with Some(id) is one position of the encoding
\* encode_single_sequence returns, with that id, the chunk's text, word 0,
\* attention_mask 1, and special_tokens_mask 1 when the token is special
\* and 0 otherwise.
C7_MatchedChunkEncoding ==
    \A i \in 1..Len(inputs) :
        stage[i].kind = "ok" =>
            \A q \in 1..Len(SequencesOf(i)) :
                MatchedAsClaimed(StagedOf(i)[q], SequencesOf(i)[q])

\* what encode returns for input i, computed on its own
EncodeAlone(i) == Encode(inputs[i], add_special_tokens)

\* the original statement of C8: the i-th encoding of the batch is what
\* encode returns for the i-th input
C8_BatchEqualsEncode ==
    e_pc = "ok" =>
        /\ Len(batch) = Len(inputs)
        /\ \A i \in 1..Len(inputs) : batch[i] = EncodeAlone(i).encoding

\* the length pad_encodings pads the batch to under BatchLongest
LongestAlone == SetMax({EncLen(EncodeAlone(i).encoding) : i \in 1..Len(inputs)})

\* C8 (amended): when encode_batch returns Ok it returns one encoding per
\* input, in input order, whatever the order the encode calls ran in; the
\* i-th is what encode returns for the i-th input, padded once more over
\* the whole batch: the same encoding with no padding or Fixed padding, and
\* under BatchLongest that encoding padded to the longest of the batch.
C8_BatchEqualsPaddedEncode ==
    e_pc = "ok" =>
        /\ Len(batch) = Len(inputs)
        /\ \A i \in 1..Len(inputs) :
              /\ EncodeAlone(i).kind = "ok"
              /\ batch[i] =
                    IF tk.padding # <<>> /\ tk.padding[1].strategy = "BatchLongest"
                    THEN Pad(EncodeAlone(i).encoding, LongestAlone, tk.padding[1])
                    ELSE EncodeAlone(i).encoding

\* the second encode call returned first, and BatchLongest padding made
\* the first encoding of the batch longer than encode returned it
C8_Witness ==
    /\ e_pc = "ok"
    /\ done_order = <<2, 1>>
    /\ tk.padding # <<>> /\ tk.padding[1].strategy = "BatchLongest"
    /\ EncLen(batch[1]) > EncLen(results[1].encoding)
    /\ batch[2] = results[2].encoding

RECURSIVE EqualLengths(_)
EqualLengths(e) ==
    /\ Len(e.type_ids) = Len(e.ids)
    /\ Len(e.tokens) = Len(e.ids)
    /\ Len(e.words) = Len(e.ids)
    /\ Len(e.offsets) = Len(e.ids)
    /\ Len(e.special_tokens_mask) = Len(e.ids)
    /\ Len(e.attention_mask) = Len(e.ids)
    /\ \A k \in 1..Len(e.overflowing) : EqualLengths(e.overflowing[k])

\* C9: every Encoding encode returns, and every Encoding of its
\* overflowing list, has its seven vectors of one length; so has every
\* Encoding encode_batch returns.
C9_EqualLengths ==
    /\ \A i \in 1..Len(inputs) :
          results[i].kind = "ok" => EqualLengths(results[i].encoding)
    /\ \A i \in 1..Len(batch) : EqualLengths(batch[i])

\* an encoding with a matched added token, truncated with an overflowing
\* part and padded
C9_Witness ==
    \E i \in 1..Len(inputs) :
        /\ results[i].kind = "ok"
        /\ results[i].encoding.overflowing # <<>>
        /\ \E k \in 1..EncLen(results[i].encoding) :
              results[i].encoding.ids[k] \in AddedIds
        /\ \E k \in 1..EncLen(results[i].encoding) :
              results[i].encoding.attention_mask[k] = 0

\* the raw string a sequence stands for: its length, and where chunk j starts
RECURSIVE OriginalLen(_)
OriginalLen(chunks) ==
    IF chunks = <<>> THEN 0
    ELSE LenOriginal(Head(chunks).normalized) + OriginalLen(Tail(chunks))

\* the byte positions of the matched chunks in the raw string, in order
RECURSIVE MatchedAt(_, _)
MatchedAt(chunks, at) ==
    IF chunks = <<>> THEN <<>>
    ELSE (IF Head(chunks).matched
          THEN << <<at, at + LenOriginal(Head(chunks).normalized)>> >> ELSE <<>>)
         \o MatchedAt(Tail(chunks), at + LenOriginal(Head(chunks).normalized))

OffsetsAsClaimed(e, sequence) ==
    LET chunks == sequence.subseqs[1]
        ps == AddedPositions(e, 1)
        at == MatchedAt(chunks, 0)
    IN  /\ \A k \in 1..EncLen(e) :
              /\ e.offsets[k][1] <= e.offsets[k][2]
              /\ e.offsets[k][2] <= OriginalLen(chunks)
        /\ Len(ps) = Len(at)
        /\ \A j \in 1..Len(ps) : e.offsets[ps[j]] = at[j]

\* C10: for a raw string s, every token of the encoding
\* encode_single_sequence returns has offsets (a, b) with a <= b <= the
\* byte length of s, and the offsets of a matched added token are the
\* byte position of that token in s.
C10_OffsetsWithinInput ==
    \A i \in 1..Len(inputs) :
        stage[i].kind = "ok" =>
            \A q \in 1..Len(SequencesOf(i)) :
                ~SequencesOf(i)[q].pre_tokenized =>
                    OffsetsAsClaimed(StagedOf(i)[q], SequencesOf(i)[q])

(***************************************************************************)
(* The claims on pre-tokenized input, word ids and the long-word rule.     *)
(***************************************************************************)
\* the unmatched chunks of a sequence, in order
UnmatchedChunks(sequence) ==
    SelectSeq(Flatten(sequence.subseqs), LAMBDA c : ~c.matched)

\* what the closure of lines 548-552 hands to self.model.tokenize for an
\* unmatched chunk
PreTokensOf(chunk) == PreTokenize(chunk.normalized).words

\* the chunk as one single pre-token
WholeChunk(chunk) ==
    <<PreToken(chunk.normalized.normalized, 0, NLen(chunk.normalized))>>

\* C11: for an InputSequence::PreTokenized input the configured
\* PreTokenizer is not applied: every unmatched chunk of an element reaches
\* Model.tokenize as one single pre-token, whatever the PreTokenizer.
C11_PreTokenizedSkipsPreTokenizer ==
    \A i \in 1..Len(inputs) :
        stage[i] # NotRun =>
            \A q \in 1..Len(SequencesOf(i)) :
                SequencesOf(i)[q].pre_tokenized =>
                    \A k \in 1..Len(UnmatchedChunks(SequencesOf(i)[q])) :
                        PreTokensOf(UnmatchedChunks(SequencesOf(i)[q])[k])
                            = WholeChunk(UnmatchedChunks(SequencesOf(i)[q])[k])

\* for every token of the Encoding of a sequence, the pre-token it comes
\* from: the chunk (counted over the whole sequence) and the index
\* Model::tokenize gave the pre-token inside that chunk
ChunkSources(rs) ==
    Flatten([n \in 1..Len(rs) |->
                [k \in 1..Len(rs[n].encoding.words) |-> <<n, rs[n].encoding.words[k]>>]])

SourcesOf(sequence) == ChunkSources(ChunkResults(Flatten(sequence.subseqs), 0))

\* words is 0, 1, .. in order of appearance, one id per source
DenseWords(words, src) ==
    /\ Len(words) = Len(src)
    /\ words # <<>> => words[1] = 0
    /\ \A k \in 1..(Len(words) - 1) :
          words[k + 1] = IF src[k + 1] = src[k] THEN words[k] ELSE words[k] + 1

\* C12: in the Encoding encode_single_sequence returns, tokens of the same
\* pre-token share one word id, tokens of different pre-tokens (those of
\* different chunks around a matched added token and the added token
\* itself included) have different word ids, and the word ids are
\* 0..k-1 in order of appearance.
C12_WordIdsDense ==
    \A i \in 1..Len(inputs) :
        stage[i].kind = "ok" =>
            \A q \in 1..Len(SequencesOf(i)) :
                DenseWords(StagedOf(i)[q].words, SourcesOf(SequencesOf(i)[q]))

(***************************************************************************)
(* The claims on post_process.                                             *)
(***************************************************************************)
\* the positions of an encoding that are no padding, in order
RECURSIVE RealPositions(_, _)
RealPositions(e, k) ==
    IF k > EncLen(e) THEN <<>>
    ELSE (IF e.attention_mask[k] = 1 THEN <<k>> ELSE <<>>) \o RealPositions(e, k + 1)

\* the number of tokens encode_single_sequence returned for input i
StagedLen(i) ==
    EncLen(stage[i].encoding)
        + (IF stage[i].pair = <<>> THEN 0 ELSE EncLen(stage[i].pair[1]))

\* the number of tokens the post-processor inserts
InsertedTokens ==
    IF add_special_tokens /\ tk.post_processor # <<>>
    THEN AddedTokens(tk.post_processor[1], FALSE) ELSE 0

\* truncated without the special tokens, then the special tokens put in
\* front, then padded: the unpadded part has the length left by
\* truncation plus the inserted tokens, and starts with the inserted token
TruncatedThenProcessed(e, staged_len) ==
    LET real == RealPositions(e, 1)
        max_length == tk.truncation[1].max_length
    IN  /\ Len(real) <= max_length
        /\ Len(real) = Min(staged_len + InsertedTokens, max_length)
        /\ InsertedTokens > 0 => (real # <<>> /\ e.ids[real[1]] = ClsId)
        /\ tk.padding # <<>> /\ tk.padding[1].strategy = "Fixed"
              => EncLen(e) >= tk.padding[1].size

\* C14: with truncation configured, post_process truncates, then runs the
\* post-processor, then pads; it truncates to max_length - added_tokens
\* when add_special_tokens is true and a post-processor is set and to
\* max_length otherwise, so the unpadded result has at most max_length
\* tokens.
C14_TruncateProcessPad ==
    \A i \in 1..Len(inputs) :
        (results[i].kind = "ok" /\ tk.truncation # <<>>) =>
            TruncatedThenProcessed(results[i].encoding, StagedLen(i))

\* what post_process returned for input i is an error value
ReturnsError(i) == results[i].kind = "err"

\* post_process was called with max_length below the number of tokens the
\* post-processor adds
TooShortForSpecialTokens ==
    /\ tk.truncation # <<>>
    /\ add_special_tokens
    /\ tk.post_processor # <<>>
    /\ tk.truncation[1].max_length < AddedTokens(tk.post_processor[1], FALSE)

\* C15: when the truncation max_length is smaller than added_tokens(is_pair)
\* and add_special_tokens is true, post_process returns a TruncationError
\* as an error value.
C15_TruncationError ==
    \A i \in 1..Len(inputs) :
        (TooShortForSpecialTokens /\ stage[i].kind = "ok" /\ results[i] # NotRun) =>
            ReturnsError(i)

(***************************************************************************)
(* The claims on encode_batch.                                             *)
(***************************************************************************)
\* the lengths of the encodings the encode calls returned, before the
\* padding of the batch
IndividualLengths == {EncLen(results[i].encoding) : i \in 1..Len(inputs)}

BatchLongestSet == tk.padding # <<>> /\ tk.padding[1].strategy = "BatchLongest"

\* C16: with padding strategy BatchLongest all Encodings one encode_batch
\* call returns have the same length, the maximum of the lengths the
\* individual encodings have before batch padding.
C16_BatchLongestLengths ==
    (e_pc = "ok" /\ BatchLongestSet) =>
        \A i \in 1..Len(batch) : EncLen(batch[i]) = SetMax(IndividualLengths)

\* a batch whose first encoding was the shorter one before padding
C16_Witness ==
    /\ e_pc = "ok"
    /\ BatchLongestSet
    /\ Len(batch) = 2
    /\ EncLen(results[1].encoding) < EncLen(results[2].encoding)
    /\ EncLen(batch[1]) = EncLen(results[2].encoding)

\* the inputs whose encode call returned an error value
Erring == {i \in 1..Len(inputs) : results[i].kind = "err"}

SetMin(S) == CHOOSE x \in S : \A y \in S : x <= y

\* encode_batch has returned or panicked
BatchEnded == e_pc \in {"ok", "err", "panic"}

\* an element failed: no list of encodings, no partial result, no padding
NoPartialResult == (BatchEnded /\ Erring # {}) => (e_pc # "ok" /\ batch = <<>>)

\* the original statement of C17: encode_batch is fail-fast, and the error
\* it returns is that of the lowest-index failing input, also when the
\* elements are run in parallel
C17_FailFastLowestIndex ==
    /\ NoPartialResult
    /\ e_pc = "err" => error = SetMin(Erring)

\* the encode calls returned in input order, as in a sequential run
ReturnedInInputOrder ==
    \A j, k \in 1..Len(done_order) : j < k => done_order[j] < done_order[k]

\* C17 (amended): when encoding an element fails, encode_batch returns no
\* list of encodings, partial or padded; when it returns Err, the error is
\* that of the failing element whose encode call returned first, which is
\* the lowest-index failing input when the calls return in input order.
C17_FailFastFirstReturned ==
    /\ NoPartialResult
    /\ e_pc = "err" =>
          /\ error \in Erring
          /\ \A k \in 1..Len(done_order) :
                done_order[k] = error =>
                    \A j \in 1..(k - 1) : results[done_order[j]].kind = "ok"
          /\ ReturnedInInputOrder => error = SetMin(Erring)

\* two inputs fail, the second returned first and its error is returned
C17_Witness ==
    /\ e_pc = "err"
    /\ Erring = {1, 2}
    /\ done_order = <<2, 1>>
    /\ error = 2
    /\ batch = <<>>

(***************************************************************************)
(* The added vocabulary and decode: Tokenizer::add_tokens,                 *)
(* add_special_tokens, get_vocab_size, id_to_token and decode.             *)
(***************************************************************************)
MaxIds == 2            \* number of ids of a decode call
MaxTokens == 1         \* number of tokens of an add_tokens call

\* a WordPiece vocabulary whose ids leave a gap: no token has id 2, and
\* "[UNK]" has the first id an added token gets
GapVocab ==
    (<<"a">> :> 0) @@ (<<"x1", "x2", "a">> :> 1) @@ (<<"b">> :> 3) @@ (unk_token :> 4)

\* WordPiece::get_vocab_size
ModelVocabSize == Cardinality(DOMAIN vocab)

\* WordPiece::token_to_id
ModelTokenToId(token) == IF token \in DOMAIN vocab THEN <<vocab[token]>> ELSE <<>>

\* the maps .iter().map(|(key, val)| (*val, key.to_owned())).collect() can
\* give, lines 109-114: of the tokens that share an id, the one the
\* iteration of the HashMap meets last is kept
CollectedVocabR(v) ==
    LET ids == {v[t] : t \in DOMAIN v} IN
    {r \in [ids -> DOMAIN v] : \A i \in ids : v[r[i]] = i}

\* WordPiece::id_to_token, lines 271-273: a lookup in vocab_r
ModelIdToToken(id) == IF id \in DOMAIN vocab_r THEN <<vocab_r[id]>> ELSE <<>>

\* AddedVocabulary::token_to_id(token, model): the overlay, then the model
AddedTokenToId(amap, token) ==
    IF token \in DOMAIN amap THEN <<amap[token]>> ELSE ModelTokenToId(token)

\* (mutant) id_to_token asking the model first
AddedIdToTokenModelFirst(amap, id) ==
    IF ModelIdToToken(id) # <<>> THEN ModelIdToToken(id)
    ELSE IF \E t \in DOMAIN amap : amap[t] = id
         THEN <<CHOOSE t \in DOMAIN amap : amap[t] = id>>
         ELSE <<>>

\* AddedVocabulary::id_to_token(id, model): the overlay, then the model
AddedIdToToken(amap, id) ==
    IF \E t \in DOMAIN amap : amap[t] = id
    THEN <<CHOOSE t \in DOMAIN amap : amap[t] = id>>
    ELSE ModelIdToToken(id)

\* AddedVocabulary::is_special_token
IsSpecialToken(token) == token \in special_tokens

\* AddedVocabulary::len
AddedLen(amap) == Cardinality(DOMAIN amap)

\* (mutant) add_tokens giving a new id to every token of the list
RECURSIVE AddTokensToUnchecked(_, _, _)
AddTokensToUnchecked(amap, tokens, added) ==
    IF tokens = <<>> THEN [map |-> amap, added |-> added]
    ELSE AddTokensToUnchecked(
             (Head(tokens) :> (ModelVocabSize + AddedLen(amap) + added)) @@ amap,
             Tail(tokens), added + 1)

\* AddedVocabulary::add_tokens(tokens, model, normalizer): a token neither
\* the model nor the overlay has gets the next id; the number of tokens
\* added is returned
RECURSIVE AddTokensTo(_, _, _)
AddTokensTo(amap, tokens, added) ==
    IF tokens = <<>> THEN [map |-> amap, added |-> added]
    ELSE IF AddedTokenToId(amap, Head(tokens)) # <<>>
         THEN AddTokensTo(amap, Tail(tokens), added)
         ELSE AddTokensTo((Head(tokens) :> (ModelVocabSize + AddedLen(amap))) @@ amap,
                          Tail(tokens), added + 1)

\* Tokenizer::get_vocab_size(with_added_tokens), lines 475-482
GetVocabSize(with_added_tokens) ==
    ModelVocabSize + (IF with_added_tokens THEN AddedLen(added_tokens_map) ELSE 0)

\* Tokenizer::id_to_token, lines 490-492
IdToToken(id) == AddedIdToToken(added_tokens_map, id)

\* Tokenizer::token_to_id, lines 485-487
TokenToId(token) == AddedTokenToId(added_tokens_map, token)

\* the filter_map of decode, lines 669-679
RECURSIVE DecodeTokens(_, _)
DecodeTokens(ids, skip_special_tokens) ==
    IF ids = <<>> THEN <<>>
    ELSE (IF IdToToken(Head(ids)) # <<>>
              /\ (~skip_special_tokens \/ ~IsSpecialToken(IdToToken(Head(ids))[1]))
          THEN IdToToken(Head(ids)) ELSE <<>>)
         \o DecodeTokens(Tail(ids), skip_special_tokens)

\* tokens.join(" ")
RECURSIVE JoinSpace(_)
JoinSpace(tokens) ==
    IF tokens = <<>> THEN <<>>
    ELSE IF Len(tokens) = 1 THEN tokens[1]
    ELSE tokens[1] \o <<" ">> \o JoinSpace(Tail(tokens))

\* (mutant) decode that turns the first replacement into a space too
MetaspaceDecodeKeepFirst(tokens, d) ==
    LET chars == CharsOf(Flatten(tokens)) IN
    Flatten([i \in 1..Len(chars) |->
                IF chars[i] = d.replacement THEN <<" ">> ELSE chars[i]])

\* Metaspace as Decoder, metaspace.rs lines 58-77: the characters of all
\* tokens, enumerated
MetaspaceDecode(tokens, d) ==
    LET chars == CharsOf(Flatten(tokens)) IN
    Flatten([i \in 1..Len(chars) |->
                IF chars[i] = d.replacement
                THEN IF i = 1 /\ d.add_prefix_space THEN <<>> ELSE <<" ">>
                ELSE chars[i]])

\* the end of decode, lines 681-685
DecoderOutput(tokens) ==
    IF decoder # <<>> THEN MetaspaceDecode(tokens, decoder[1]) ELSE JoinSpace(tokens)

\* Tokenizer::decode(ids, skip_special_tokens), lines 668-686
Decode(ids, skip_special_tokens) ==
    DecoderOutput(DecodeTokens(ids, skip_special_tokens))

\* the tokens given to add_tokens and add_special_tokens: "a" is in the model
AddableTokens == {UserToken, SepToken, <<"a">>}

TokenLists == UNION {[1..n -> AddableTokens] : n \in 1..MaxTokens}

\* the ids given to decode: of the model, of both the model and the
\* overlay, of the overlay, of neither
DecodeIds == {1, 4, 5, 9}

IdLists == UNION {[1..n -> DecodeIds] : n \in 0..MaxIds}

Decoders ==
    { <<>>, <<[replacement |-> <<"x1", "x2">>, add_prefix_space |-> TRUE]>> }

\* Tokenizer::add_tokens(tokens), lines 885-888
AddTokensCall(tokens) ==
    /\ call.op # "off"
    /\ \E r \in {AddTokensTo(added_tokens_map, tokens, 0)} :
         /\ added_tokens_map' = r.map
         /\ ret' = [kind |-> "usize", value |-> r.added]
    /\ call' = [op |-> "add_tokens", tokens |-> tokens]
    /\ UNCHANGED <<special_tokens, decoder>>
    /\ UNCHANGED othervars_voc

\* Tokenizer::add_special_tokens(tokens), lines 880-883: the tokens are
\* flagged special, and added as add_tokens does
AddSpecialTokensCall(tokens) ==
    /\ call.op # "off"
    /\ \E r \in {AddTokensTo(added_tokens_map, tokens, 0)} :
         /\ added_tokens_map' = r.map
         /\ ret' = [kind |-> "usize", value |-> r.added]
    /\ special_tokens' = special_tokens \cup {tokens[k] : k \in 1..Len(tokens)}
    /\ call' = [op |-> "add_special_tokens", tokens |-> tokens]
    /\ UNCHANGED decoder
    /\ UNCHANGED othervars_voc

\* Tokenizer::decode(ids, skip_special_tokens)
DecodeCall(ids, skip_special_tokens) ==
    /\ call.op # "off"
    /\ ret' = [kind |-> "string", value |-> Decode(ids, skip_special_tokens)]
    /\ call' = [op |-> "decode", ids |-> ids, skip_special_tokens |-> skip_special_tokens]
    /\ UNCHANGED <<added_tokens_map, special_tokens, decoder>>
    /\ UNCHANGED othervars_voc

\* a WordPiece vocabulary with the ids 0..3, which has the token "<t>"
TrainedVocab ==
    (<<"a">> :> 0) @@ (<<"b">> :> 1) @@ (unk_token :> 2) @@ (UserToken :> 3)

\* a WordPiece vocabulary in which "a" and "b" share the id 0
SharedIdVocab ==
    (<<"a">> :> 0) @@ (<<"b">> :> 0) @@ (unk_token :> 1) @@ (UserToken :> 2)

\* the models given to with_model and returned by a Trainer
Models == {GapVocab, TrainedVocab, SharedIdVocab}

\* Tokenizer::get_vocab(with_added_tokens), lines 458-472: the entries of
\* the added vocabulary are inserted over those of the model
GetVocab(with_added_tokens) ==
    IF with_added_tokens THEN added_tokens_map @@ vocab ELSE vocab

\* Tokenizer::with_model(model), lines 415-418: only the model is replaced
WithModelCall(model) ==
    /\ call.op # "off"
    /\ vocab' = model
    /\ vocab_r' \in CollectedVocabR(model)
    /\ call' = [op |-> "with_model"]
    /\ ret' = [kind |-> "none"]
    /\ UNCHANGED <<added_tokens_map, special_tokens, decoder>>
    /\ UNCHANGED <<max_input_chars_per_word, sentence, index, start, output_tokens, wp_pc>>
    /\ UNCHANGED <<config, b_pc>>
    /\ UNCHANGED <<cachevars, encvars, devars, prevars>>

\* Tokenizer::train(trainer, files), lines 781-807: the Trainer returns a
\* model and special tokens; the new Tokenizer has this model and the
\* added vocabulary of the old one, and the special tokens are added to it
\* with the new model
TrainCall(model, special) ==
    /\ call.op # "off"
    /\ vocab' = model
    /\ vocab_r' \in CollectedVocabR(model)
    /\ \E old \in {added_tokens_map} :
         \E r \in {AddTokensTo(old, special, 0)'} : added_tokens_map' = r.map
    /\ ret' = [kind |-> "tokenizer"]
    /\ special_tokens' = special_tokens \cup {special[k] : k \in 1..Len(special)}
    /\ call' = [op |-> "train"]
    /\ UNCHANGED decoder
    /\ UNCHANGED <<max_input_chars_per_word, sentence, index, start, output_tokens, wp_pc>>
    /\ UNCHANGED <<config, b_pc>>
    /\ UNCHANGED <<cachevars, encvars, devars, prevars>>

\* Tokenizer::new(model), with_decoder
VocInit ==
    /\ added_tokens_map = <<>>
    /\ special_tokens = {}
    /\ decoder \in Decoders
    /\ call = [op |-> "new"]
    /\ ret = [kind |-> "none"]

VocOff ==
    /\ added_tokens_map = <<>>
    /\ special_tokens = {}
    /\ decoder = <<>>
    /\ call = [op |-> "off"]
    /\ ret = [kind |-> "none"]

VocNext ==
    \/ \E tokens \in TokenLists : AddTokensCall(tokens)
    \/ \E tokens \in TokenLists : AddSpecialTokensCall(tokens)
    \/ \E ids \in IdLists, skip \in BOOLEAN : DecodeCall(ids, skip)

\* the calls that change the model or the added vocabulary of a Tokenizer
IdsNext ==
    \/ \E tokens \in TokenLists : AddTokensCall(tokens)
    \/ \E tokens \in TokenLists : AddSpecialTokensCall(tokens)
    \/ \E model \in Models : WithModelCall(model)
    \/ \E model \in Models, special \in TokenLists : TrainCall(model, special)

\* the WordPiece model of the tokenizer of these calls
GapModel ==
    /\ vocab = GapVocab
    /\ max_input_chars_per_word = DefaultMaxInputChars
    /\ sentence = <<>>
    /\ index = 0
    /\ start = 0
    /\ output_tokens = <<>>
    /\ wp_pc = "off"

(***************************************************************************)
(* The claims on decode and on adding tokens.                              *)
(***************************************************************************)
\* the ids of the overlay and of the model
OverlayIds == {added_tokens_map[t] : t \in DOMAIN added_tokens_map}

ModelIds == {vocab[t] : t \in DOMAIN vocab}

\* the token string of an id: the entry of the overlay when the id is in
\* the overlay, the entry of the model otherwise
StringOf(id) ==
    IF id \in OverlayIds
    THEN CHOOSE t \in DOMAIN added_tokens_map : added_tokens_map[t] = id
    ELSE vocab_r[id]

\* the strings decode keeps: those of the ids that have a token, without
\* the special tokens when skip_special_tokens
KeptStrings(ids, skip_special_tokens) ==
    LET kept == SelectSeq(ids, LAMBDA id :
                    /\ id \in OverlayIds \cup DOMAIN vocab_r
                    /\ skip_special_tokens => StringOf(id) \notin special_tokens)
    IN  [k \in 1..Len(kept) |-> StringOf(kept[k])]

\* s is the strings with exactly one space between consecutive ones
RECURSIVE IsJoined(_, _)
IsJoined(s, strings) ==
    IF strings = <<>> THEN s = <<>>
    ELSE LET n == Len(strings[Len(strings)])
             m == Len(s) - n
         IN  /\ m >= 0
             /\ SubSeq(s, m + 1, Len(s)) = strings[Len(strings)]
             /\ IF Len(strings) = 1 THEN m = 0
                ELSE /\ m >= 1
                     /\ s[m] = " "
                     /\ IsJoined(SubSeq(s, 1, m - 1), SubSeq(strings, 1, Len(strings) - 1))

\* C18: decode(ids, skip_special_tokens) maps each id, in order, to its
\* token string, the added-vocabulary entry when the id is in the overlay
\* and the model's entry otherwise (an id with no token gives no string);
\* with skip_special_tokens the special tokens are dropped; the remaining
\* strings go to the configured Decoder, or are joined with exactly one
\* space between consecutive strings when no Decoder is set.
C18_Decode ==
    call.op = "decode" =>
        IF decoder = <<>>
        THEN IsJoined(ret.value, KeptStrings(call.ids, call.skip_special_tokens))
        ELSE ret.value = MetaspaceDecode(KeptStrings(call.ids, call.skip_special_tokens),
                                         decoder[1])

\* decode without decoder of an id the overlay and the model both have
\* and of an id of the model, with special tokens to skip
C18_Witness ==
    /\ call.op = "decode"
    /\ decoder = <<>>
    /\ call.skip_special_tokens
    /\ special_tokens # {}
    /\ call.ids = <<4, 1>>
    /\ 4 \in OverlayIds
    /\ ret.value = StringOf(4) \o <<" ", "x1", "x2", "a">>

\* the tokens of the model vocabulary and of the added vocabulary
AllTokens == DOMAIN vocab \cup DOMAIN added_tokens_map

\* C29: after any sequence of add_tokens, add_special_tokens, with_model
\* and train the id space is consistent: no added token that is absent from
\* the current model has an id the current model uses,
\* id_to_token(token_to_id(t)) = t for every token t of the model
\* vocabulary and of the added vocabulary, and get_vocab_size(true) is the
\* number of entries of get_vocab(true).
C29_IdSpaceConsistent ==
    call.op # "off" =>
        /\ \A t \in DOMAIN added_tokens_map :
              t \notin DOMAIN vocab => added_tokens_map[t] \notin ModelIds
        /\ \A t \in AllTokens :
              /\ TokenToId(t) # <<>>
              /\ IdToToken(TokenToId(t)[1]) = <<t>>
        /\ GetVocabSize(TRUE) = Cardinality(DOMAIN GetVocab(TRUE))

\* the tokens of the call were all added before it
AlreadyAdded == \A k \in 1..Len(call'.tokens) : call'.tokens[k] \in DOMAIN added_tokens_map

\* a step of add_tokens or add_special_tokens with tokens added before
\* returns 0 and leaves get_vocab_size(true) and the ids of the tokens
ReAddChangesNothing ==
    (call'.op \in {"add_tokens", "add_special_tokens"} /\ AlreadyAdded) =>
        /\ ret'.value = 0
        /\ GetVocabSize(TRUE)' = GetVocabSize(TRUE)
        /\ \A k \in 1..Len(call'.tokens) :
              AddedTokenToId(added_tokens_map', call'.tokens[k])
                  = AddedTokenToId(added_tokens_map, call'.tokens[k])

\* C19: calling add_tokens (or add_special_tokens) a second time with a
\* token that was already added returns 0 and leaves get_vocab_size(true)
\* and the token's id unchanged.
C19_ReAddIsNoOp == [][ReAddChangesNothing]_vars

\* add_special_tokens(["<t>"]) returned 0: "<t>" had been added, after
\* another token, and kept its id
C19_Witness ==
    /\ call.op = "add_special_tokens"
    /\ call.tokens = <<UserToken>>
    /\ ret.value = 0
    /\ UserToken \in DOMAIN added_tokens_map
    /\ added_tokens_map[UserToken] = ModelVocabSize + 1
    /\ GetVocabSize(TRUE) = ModelVocabSize + 2

(***************************************************************************)
(* Deserialize for Tokenizer, tokenizer/serialization.rs:                  *)
(* TokenizerVisitor::visit_map reading the top-level object of a JSON      *)
(* document through serde_json's MapAccess (from_str, from_file).  The     *)
(* reader is at the value of a key until next_value reads it; next_key     *)
(* wants the end of the object or a comma and fails on anything else.      *)
(***************************************************************************)
MaxKeys == 2           \* number of entries of the top-level object

\* the entries a document is made of
Entries ==
    {"version 1.0", "version 2.0", "truncation", "padding", "added_tokens",
     "normalizer", "pre_tokenizer", "post_processor", "decoder", "model", "comment"}

\* the key of an entry; "comment" is no key of the format
KeyOf(entry) ==
    IF entry \in {"version 1.0", "version 2.0"} THEN "version" ELSE entry

KnownKeys ==
    {"version", "truncation", "padding", "added_tokens", "normalizer",
     "pre_tokenizer", "post_processor", "decoder", "model"}

\* the value of an entry, null being <<>> where the value is an Option
ValueOf(entry) ==
    CASE entry = "version 1.0" -> "1.0"
      [] entry = "version 2.0" -> "2.0"
      [] entry = "truncation" -> <<TruncationOf(2, 0, "LongestFirst")>>
      [] entry = "padding" -> <<>>
      [] entry = "added_tokens" ->
             <<[token |-> SepToken, id |-> 4, special |-> TRUE],
               [token |-> UserToken, id |-> 5, special |-> FALSE]>>
      [] entry = "normalizer" -> <<"NFC">>
      [] entry = "pre_tokenizer" -> <<[kind |-> "Bert"]>>
      [] entry = "post_processor" -> <<>>
      [] entry = "decoder" -> <<[replacement |-> <<"x1", "x2">>, add_prefix_space |-> TRUE]>>
      [] entry = "model" -> GapVocab
      [] OTHER -> "a comment"

Documents == UNION {[1..n -> Entries] : n \in 0..MaxKeys}

\* map.next_value(): the value of the key read last
NextValue == ValueOf(doc[map_pos + 1])

\* what the match arms leave alone
de_model == <<max_input_chars_per_word, sentence, index, start, output_tokens, wp_pc>>
de_enc == <<add_special_tokens, inputs, stage, results, done_order, batch, error, e_pc>>
de_voc == <<call, ret>>

\* while let Some(key) = map.next_key::<String>()?, line 88: the end of the
\* object ends the loop, and then the loop over tokens (lines 134-155)
\* adds the tokens one by one and the tokenizer is returned; the value of
\* the last key not read is an error of the reader
DeNextKey ==
    /\ de_pc = "key"
    /\ IF map_pending
       THEN /\ de_pc' = "err"
            /\ UNCHANGED <<de_key, map_pending, added_tokens_map, special_tokens>>
       ELSE IF map_pos = Len(doc)
       THEN /\ de_pc' = "ok"
            /\ added_tokens_map' =
                   AddTokensTo(<<>>, [k \in 1..Len(de_tokens) |-> de_tokens[k].token], 0).map
            /\ special_tokens' =
                   {de_tokens[k].token : k \in {j \in 1..Len(de_tokens) : de_tokens[j].special}}
            /\ UNCHANGED <<de_key, map_pending>>
       ELSE /\ de_key' = KeyOf(doc[map_pos + 1])
            /\ map_pending' = TRUE
            /\ de_pc' = "match"
            /\ UNCHANGED <<added_tokens_map, special_tokens>>
    /\ UNCHANGED <<doc, map_pos, normalizer, de_tokens, tk, decoder, vocab>>
    /\ UNCHANGED <<de_model, de_enc, de_voc, cachevars, prevars, bldvars>>

\* "version", lines 90-95
DeVersion ==
    /\ de_pc = "match" /\ de_key = "version"
    /\ map_pos' = map_pos + 1
    /\ map_pending' = FALSE
    /\ de_pc' = IF NextValue # "1.0" THEN "err" ELSE "key"
    /\ UNCHANGED <<doc, de_key, normalizer, de_tokens, tk, decoder, vocab,
                   added_tokens_map, special_tokens>>
    /\ UNCHANGED <<de_model, de_enc, de_voc, cachevars, prevars, bldvars>>

\* "truncation", lines 96-98
DeTruncation ==
    /\ de_pc = "match" /\ de_key = "truncation"
    /\ map_pos' = map_pos + 1
    /\ map_pending' = FALSE
    /\ tk' = [tk EXCEPT !.truncation = NextValue]
    /\ de_pc' = "key"
    /\ UNCHANGED <<doc, de_key, normalizer, de_tokens, decoder, vocab,
                   added_tokens_map, special_tokens>>
    /\ UNCHANGED <<de_model, de_enc, de_voc, cachevars, prevars, bldvars>>

\* "padding", lines 99-101
DePadding ==
    /\ de_pc = "match" /\ de_key = "padding"
    /\ map_pos' = map_pos + 1
    /\ map_pending' = FALSE
    /\ tk' = [tk EXCEPT !.padding = NextValue]
    /\ de_pc' = "key"
    /\ UNCHANGED <<doc, de_key, normalizer, de_tokens, decoder, vocab,
                   added_tokens_map, special_tokens>>
    /\ UNCHANGED <<de_model, de_enc, de_voc, cachevars, prevars, bldvars>>

\* "added_tokens", lines 102-104
DeAddedTokens ==
    /\ de_pc = "match" /\ de_key = "added_tokens"
    /\ map_pos' = map_pos + 1
    /\ map_pending' = FALSE
    /\ de_tokens' = NextValue
    /\ de_pc' = "key"
    /\ UNCHANGED <<doc, de_key, normalizer, tk, decoder, vocab,
                   added_tokens_map, special_tokens>>
    /\ UNCHANGED <<de_model, de_enc, de_voc, cachevars, prevars, bldvars>>

\* "normalizer", lines 105-109
DeNormalizer ==
    /\ de_pc = "match" /\ de_key = "normalizer"
    /\ map_pos' = map_pos + 1
    /\ map_pending' = FALSE
    /\ normalizer' = IF NextValue # <<>> THEN NextValue ELSE normalizer
    /\ de_pc' = "key"
    /\ UNCHANGED <<doc, de_key, de_tokens, tk, decoder, vocab,
                   added_tokens_map, special_tokens>>
    /\ UNCHANGED <<de_model, de_enc, de_voc, cachevars, prevars, bldvars>>

\* "pre_tokenizer", lines 110-114
DePreTokenizer ==
    /\ de_pc = "match" /\ de_key = "pre_tokenizer"
    /\ map_pos' = map_pos + 1
    /\ map_pending' = FALSE
    /\ tk' = IF NextValue # <<>> THEN [tk EXCEPT !.pre_tokenizer = NextValue[1]] ELSE tk
    /\ de_pc' = "key"
    /\ UNCHANGED <<doc, de_key, normalizer, de_tokens, decoder, vocab,
                   added_tokens_map, special_tokens>>
    /\ UNCHANGED <<de_model, de_enc, de_voc, cachevars, prevars, bldvars>>

\* "model", lines 115-117
DeModel ==
    /\ de_pc = "match" /\ de_key = "model"
    /\ map_pos' = map_pos + 1
    /\ map_pending' = FALSE
    /\ vocab' = NextValue
    /\ de_pc' = "key"
    /\ UNCHANGED <<doc, de_key, normalizer, de_tokens, tk, decoder,
                   added_tokens_map, special_tokens>>
    /\ UNCHANGED <<de_model, de_enc, de_voc, cachevars, prevars, bldvars>>

\* "decoder", lines 118-122
DeDecoder ==
    /\ de_pc = "match" /\ de_key = "decoder"
    /\ map_pos' = map_pos + 1
    /\ map_pending' = FALSE
    /\ decoder' = IF NextValue # <<>> THEN NextValue ELSE decoder
    /\ de_pc' = "key"
    /\ UNCHANGED <<doc, de_key, normalizer, de_tokens, tk, vocab,
                   added_tokens_map, special_tokens>>
    /\ UNCHANGED <<de_model, de_enc, de_voc, cachevars, prevars, bldvars>>

\* "post_processor", lines 123-127
DePostProcessor ==
    /\ de_pc = "match" /\ de_key = "post_processor"
    /\ map_pos' = map_pos + 1
    /\ map_pending' = FALSE
    /\ tk' = IF NextValue # <<>> THEN [tk EXCEPT !.post_processor = NextValue] ELSE tk
    /\ de_pc' = "key"
    /\ UNCHANGED <<doc, de_key, normalizer, de_tokens, decoder, vocab,
                   added_tokens_map, special_tokens>>
    /\ UNCHANGED <<de_model, de_enc, de_voc, cachevars, prevars, bldvars>>

\* _ => {}, line 128: nothing is read
DeOtherKey ==
    /\ de_pc = "match" /\ de_key \notin KnownKeys
    /\ de_pc' = "key"
    /\ UNCHANGED <<doc, map_pos, map_pending, de_key, normalizer, de_tokens, tk, decoder, vocab,
                   added_tokens_map, special_tokens>>
    /\ UNCHANGED <<de_model, de_enc, de_voc, cachevars, prevars, bldvars>>

\* Tokenizer::new(T::default()), tokens = vec![], lines 86-87
DeInit ==
    /\ doc \in Documents
    /\ map_pos = 0
    /\ map_pending = FALSE
    /\ de_key = ""
    /\ normalizer = <<>>
    /\ de_tokens = <<>>
    /\ de_pc = "key"

DeOff ==
    /\ doc = <<>>
    /\ map_pos = 0
    /\ map_pending = FALSE
    /\ de_key = ""
    /\ normalizer = <<>>
    /\ de_tokens = <<>>
    /\ de_pc = "off"

DeNext ==
    \/ DeNextKey
    \/ DeVersion
    \/ DeTruncation
    \/ DePadding
    \/ DeAddedTokens
    \/ DeNormalizer
    \/ DePreTokenizer
    \/ DeModel
    \/ DeDecoder
    \/ DePostProcessor
    \/ DeOtherKey

(***************************************************************************)
(* The claim on unknown keys.                                              *)
(***************************************************************************)
\* the document without the entries whose key is not one of the format
WithoutUnknown(d) == SelectSeq(d, LAMBDA entry : KeyOf(entry) \in KnownKeys)

\* the last value the entries of d give for a key: the value, or <<>>
LastOf(d, k, none) ==
    LET at == {j \in 1..Len(d) : KeyOf(d[j]) = k /\ ValueOf(d[j]) # <<>>}
    IN  IF at = {} THEN none ELSE ValueOf(d[SetMax(at)])

\* deserializing d succeeds: every version it gives is "1.0"
Accepted(d) == \A j \in 1..Len(d) : KeyOf(d[j]) = "version" => ValueOf(d[j]) = "1.0"

\* the tokenizer is the one the entries of d describe
TokenizerOf(d) ==
    /\ normalizer = LastOf(d, "normalizer", <<>>)
    /\ decoder = LastOf(d, "decoder", <<>>)
    /\ de_tokens = LastOf(d, "added_tokens", <<>>)
    /\ vocab = LastOf(d, "model", EmptyMap)
    /\ tk.pre_tokenizer = LastOf(d, "pre_tokenizer", <<[kind |-> "None"]>>)[1]
    /\ tk.post_processor = LastOf(d, "post_processor", <<>>)
    /\ tk.truncation = LastOf(d, "truncation", <<>>)
    /\ tk.padding = LastOf(d, "padding", <<>>)
    /\ DOMAIN added_tokens_map = {de_tokens[k].token : k \in 1..Len(de_tokens)}

\* C20: deserializing a document with top-level keys other than those of
\* the format succeeds and gives the same tokenizer as the document
\* without those keys: an unknown key is skipped together with its value
\* and the following keys are read.
C20_UnknownKeysIgnored ==
    (de_pc \in {"ok", "err"} /\ Accepted(WithoutUnknown(doc))) =>
        /\ de_pc = "ok"
        /\ TokenizerOf(WithoutUnknown(doc))

(***************************************************************************)
(* One call of PreTokenizer::pre_tokenize and of Decoder::decode           *)
(* (pre_tokenizers/bert.rs, delimiter.rs, metaspace.rs) on its own.        *)
(***************************************************************************)
MaxPreChars == 3       \* number of characters of the text given to pre_tokenize
MaxDecTokens == 2      \* number of tokens given to decode

\* the characters of the texts: a letter, a space, a tab, an ASCII
\* punctuation, a two-byte letter, a two-byte punctuation
PreChars == {<<"a">>, <<" ">>, <<"\t">>, <<"!">>, <<"_">>, <<"x1", "x2">>, <<"y1", "x2">>}

RECURSIVE TextsOf(_)
TextsOf(n) ==
    IF n = 0 THEN {<<>>}
    ELSE {<<>>} \cup {c \o t : c \in PreChars, t \in TextsOf(n - 1)}

PreTexts == TextsOf(MaxPreChars)

\* the pre-tokenizers called
PreToks ==
    { [kind |-> "Bert"],
      [kind |-> "CharDelimiterSplit", delimiter |-> <<"!">>],
      [kind |-> "Metaspace", replacement |-> <<"x1", "x2">>, add_prefix_space |-> TRUE],
      [kind |-> "Metaspace", replacement |-> <<"x1", "x2">>, add_prefix_space |-> FALSE],
      [kind |-> "Metaspace", replacement |-> <<"_">>, add_prefix_space |-> TRUE] }

\* the tokens given to decode
DecTokens == {<<>>, <<"a">>, <<"x1", "x2">>, <<"x1", "x2", "a">>, <<"a", "x1", "x2">>, <<"_", " ">>}

RECURSIVE TokenListsOf(_)
TokenListsOf(n) ==
    IF n = 0 THEN {<<>>}
    ELSE {<<>>} \cup {<<t>> \o l : t \in DecTokens, l \in TokenListsOf(n - 1)}

\* the String of every pre-token, in order
TokensOf(words) == [k \in 1..Len(words) |-> words[k].token]

\* pre_tokenize(&mut normalized) of the pre-tokenizer
PreTokenizeCall ==
    /\ p_pc = "new"
    /\ \E r \in {PreTokenizeWith(pretok, nstring)} :
         /\ pieces' = r.words
         /\ nstring' = r.normalized
    /\ p_pc' = "split"
    /\ UNCHANGED <<pretok, given, dec_tokens, dec_out>>
    /\ UNCHANGED othervars_pre

\* Metaspace::decode(tokens) of the strings pre_tokenize returned
DecodePiecesCall ==
    /\ p_pc = "split"
    /\ pretok.kind = "Metaspace"
    /\ dec_tokens' = TokensOf(pieces)
    /\ dec_out' = MetaspaceDecode(TokensOf(pieces), pretok)
    /\ p_pc' = "back"
    /\ UNCHANGED <<pretok, nstring, given, pieces>>
    /\ UNCHANGED othervars_pre

\* Metaspace::decode(tokens) of any tokens
MetaspaceDecodeCall ==
    /\ p_pc = "new"
    /\ pretok.kind = "Metaspace"
    /\ \E tokens \in TokenListsOf(MaxDecTokens) :
         /\ dec_tokens' = tokens
         /\ dec_out' = MetaspaceDecode(tokens, pretok)
    /\ p_pc' = "decoded"
    /\ UNCHANGED <<pretok, nstring, given, pieces>>
    /\ UNCHANGED othervars_pre

\* NormalizedString::from(text)
PreInit ==
    /\ pretok \in PreToks
    /\ given \in PreTexts
    /\ nstring = Identity(given)
    /\ pieces = <<>>
    /\ dec_tokens = <<>>
    /\ dec_out = <<>>
    /\ p_pc = "new"

PreOff ==
    /\ pretok = [kind |-> "None"]
    /\ given = <<>>
    /\ nstring = Identity(<<>>)
    /\ pieces = <<>>
    /\ dec_tokens = <<>>
    /\ dec_out = <<>>
    /\ p_pc = "off"

PreNext ==
    \/ PreTokenizeCall
    \/ DecodePiecesCall
    \/ MetaspaceDecodeCall

(***************************************************************************)
(* The claims on the pre-tokenizers and the Metaspace decoder.             *)
(***************************************************************************)
\* every whitespace character of s written as the replacement
RECURSIVE WithReplacement(_, _)
WithReplacement(chars, replacement) ==
    IF chars = <<>> THEN <<>>
    ELSE (IF IsWhitespace(Head(chars)) THEN replacement ELSE Head(chars))
         \o WithReplacement(Tail(chars), replacement)

\* the bytes s..e of the normalized string are the source text of the piece
IsSourceOf(piece) ==
    LET s == piece.offsets[1]
        e == piece.offsets[2]
    IN  /\ 0 <= s /\ s <= e /\ e <= NLen(nstring)
        /\ IF pretok.kind = "Metaspace"
           THEN WithReplacement(CharsOf(Slice(nstring.normalized, s, e)), pretok.replacement)
                    = piece.token
           ELSE Slice(nstring.normalized, s, e) = piece.token

\* C21: the offsets CharDelimiterSplit and Metaspace return are byte
\* offsets into the normalized string: the bytes s..e of the normalized
\* string are the source text of the piece (for Metaspace with the
\* whitespace written as the replacement), multi-byte characters included.
C21_ByteOffsets ==
    (p_pc = "split" /\ pretok.kind \in {"CharDelimiterSplit", "Metaspace"}) =>
        \A k \in 1..Len(pieces) : IsSourceOf(pieces[k])

\* the byte positions of s where a character starts
CharStartsOf(s) == {i \in 0..(Len(s) - 1) : IsCharBoundary(s, i)}

\* the character of s that starts at byte i
CharAt(s, i) ==
    IF s[i + 1] \in {"x1", "y1"} /\ i + 2 <= Len(s)
    THEN SubSeq(s, i + 1, i + 2) ELSE <<s[i + 1]>>

IsDelimiter(c) == IsWhitespace(c) \/ IsBertPunc(c)

\* the bytes a..b of s are a maximal run of characters that are neither
\* whitespace nor punctuation
IsMaximalRun(s, a, b) ==
    /\ \A j \in CharStartsOf(s) : (a <= j /\ j < b) => ~IsDelimiter(CharAt(s, j))
    /\ a = 0 \/ \E j \in CharStartsOf(s) :
                    j + Len(CharAt(s, j)) = a /\ IsDelimiter(CharAt(s, j))
    /\ b = Len(s) \/ (b \in CharStartsOf(s) /\ IsDelimiter(CharAt(s, b)))

\* C22: BertPreTokenizer::pre_tokenize returns, in input order, every
\* maximal run of characters that are neither whitespace nor punctuation
\* as one piece and every punctuation character as a piece of its own;
\* whitespace is in no piece, no piece is empty, each piece is the bytes
\* s..e of the input its offsets give, and the offsets increase strictly
\* without overlap.
C22_BertPieces ==
    (p_pc = "split" /\ pretok.kind = "Bert") =>
        LET s == nstring.normalized
            Off(k) == pieces[k].offsets
        IN  /\ s = given
            /\ \A k \in 1..Len(pieces) :
                  /\ 0 <= Off(k)[1] /\ Off(k)[1] < Off(k)[2] /\ Off(k)[2] <= Len(s)
                  /\ Slice(s, Off(k)[1], Off(k)[2]) = pieces[k].token
            /\ \A k \in 1..(Len(pieces) - 1) : Off(k)[2] <= Off(k + 1)[1]
            /\ \A i \in CharStartsOf(s) :
                  LET c == CharAt(s, i) IN
                  IF IsWhitespace(c)
                  THEN \A k \in 1..Len(pieces) : ~(Off(k)[1] <= i /\ i < Off(k)[2])
                  ELSE IF IsBertPunc(c)
                  THEN \E k \in 1..Len(pieces) : Off(k) = <<i, i + Len(c)>>
                  ELSE \E k \in 1..Len(pieces) :
                          /\ Off(k)[1] <= i /\ i < Off(k)[2]
                          /\ IsMaximalRun(s, Off(k)[1], Off(k)[2])

\* a text with a space, a two-byte punctuation and a letter was split in two
C22_Witness ==
    /\ p_pc = "split" /\ pretok.kind = "Bert"
    /\ Len(pieces) = 2
    /\ \E i \in 1..Len(given) : given[i] = " "
    /\ \E i \in 1..Len(given) : given[i] = "y1"
    /\ \E i \in 1..Len(given) : given[i] \in {"a", "x1"}

\* the text with one space in front unless it starts with a space
Prefixed(text) ==
    IF text # <<>> /\ Head(text) = " " THEN text ELSE <<" ">> \o text

\* the positions of the whitespace characters of chars
WhitespaceAt(chars) == {i \in 1..Len(chars) : IsWhitespace(chars[i])}

\* the k-th position of W, or past when W has fewer
NthOf(W, k, past) ==
    IF k > Cardinality(W) THEN past
    ELSE CHOOSE i \in W : Cardinality({j \in W : j <= i}) = k

\* positions i..j of chars are a maximal run of whitespace characters
IsWhitespaceRun(chars, i, j) ==
    /\ i <= j
    /\ \A m \in i..j : IsWhitespace(chars[m])
    /\ i = 1 \/ ~IsWhitespace(chars[i - 1])
    /\ j = Len(chars) \/ ~IsWhitespace(chars[j + 1])

\* C23: Metaspace::pre_tokenize with add_prefix_space = true prepends one
\* space unless the string starts with a space, starts a new piece at
\* every whitespace character and writes it as the replacement: every
\* piece begins with the replacement, a run of n whitespace characters
\* gives n - 1 pieces made of the replacement alone, and the offsets tile
\* the prefixed string from 0 to its length.
C23_MetaspacePieces ==
    (p_pc = "split" /\ pretok.kind = "Metaspace" /\ pretok.add_prefix_space) =>
        LET chars == CharsOf(Prefixed(given))
            W == WhitespaceAt(chars)
            n == Len(pieces)
        IN  /\ nstring.normalized = Prefixed(given)
            /\ n = Cardinality(W)
            /\ \A k \in 1..n :
                  /\ pieces[k].token =
                        WithReplacement(SubSeq(chars, NthOf(W, k, 0),
                                               NthOf(W, k + 1, Len(chars) + 1) - 1),
                                        pretok.replacement)
                  /\ SubSeq(pieces[k].token, 1, Len(pretok.replacement)) = pretok.replacement
            /\ \A i \in 1..Len(chars) : \A j \in i..Len(chars) :
                  IsWhitespaceRun(chars, i, j) =>
                      Cardinality({k \in 1..n : /\ NthOf(W, k, 0) \in i..j
                                                /\ pieces[k].token = pretok.replacement})
                          = j - i
            /\ n > 0
            /\ pieces[1].offsets[1] = 0
            /\ \A k \in 1..(n - 1) : pieces[k + 1].offsets[1] = pieces[k].offsets[2]
            /\ pieces[n].offsets[2] = Len(Prefixed(given))

\* every replacement character of chars turned into a space, the others kept
RECURSIVE ReplacementToSpace(_, _)
ReplacementToSpace(chars, replacement) ==
    IF chars = <<>> THEN <<>>
    ELSE (IF Head(chars) = replacement THEN <<" ">> ELSE Head(chars))
         \o ReplacementToSpace(Tail(chars), replacement)

\* C24: Metaspace::decode returns the concatenation of the tokens with
\* every replacement character turned into a space, except that a
\* replacement character at the very first position of the concatenation
\* is removed when add_prefix_space is true; the other characters are
\* kept in order.
C24_MetaspaceDecode ==
    p_pc \in {"decoded", "back"} =>
        LET chars == CharsOf(Flatten(dec_tokens))
            kept == IF pretok.add_prefix_space /\ chars # <<>>
                       /\ Head(chars) = pretok.replacement
                    THEN Tail(chars) ELSE chars
        IN  dec_out = ReplacementToSpace(kept, pretok.replacement)

\* two tokens that both begin with the replacement were decoded
C24_Witness ==
    /\ p_pc = "decoded"
    /\ pretok.add_prefix_space
    /\ dec_tokens = << <<"x1", "x2", "a">>, <<"x1", "x2", "a">> >>
    /\ dec_out = <<"a", " ", "a">>

\* the text holds no replacement character and no whitespace but the space
Decodable(text) ==
    /\ \A i \in 1..Len(CharsOf(text)) : CharsOf(text)[i] # pretok.replacement
    /\ \A i \in 1..Len(text) : text[i] # "\t"

\* C30 as claimed: for Metaspace with add_prefix_space = true and every
\* text without the replacement character whose only whitespace is the
\* space, texts that begin with a space included, decode of the pieces
\* of pre_tokenize is the text.
C30_RoundTrip ==
    (p_pc = "back" /\ pretok.add_prefix_space /\ Decodable(given)) =>
        dec_out = given

\* C30: for Metaspace with add_prefix_space = true and every text without
\* the replacement character whose only whitespace is the space and that
\* does not begin with a space, decode of the pieces of pre_tokenize is
\* the text; of a text that begins with a space, decode gives the text
\* without that space.
C30_RoundTripNoLeadingSpace ==
    (p_pc = "back" /\ pretok.add_prefix_space /\ Decodable(given)) =>
        IF given # <<>> /\ Head(given) = " "
        THEN dec_out = Tail(given)
        ELSE dec_out = given

\* a text with a run of spaces went through pre_tokenize and decode
C30_Witness ==
    /\ p_pc = "back"
    /\ pretok.add_prefix_space
    /\ given = <<"a", " ", " ">>
    /\ Len(pieces) = 3
    /\ dec_out = given

(***************************************************************************)
(* WordPieceBuilder::build and WordPiece::read_files                       *)
(* (models/wordpiece/mod.rs lines 104-123 and 167-179).                    *)
(***************************************************************************)
MaxLines == 2          \* number of lines of a vocab file
MaxVocabId == 1        \* largest id of a vocab map given to the builder

\* the tokens of the vocab maps given to the builder
BuildTokens == {<<"a">>, <<"b">>}

\* the lines of the vocab files, without their line ends
FileLines == {<<"a">>, <<"a", " ">>, <<"b">>, <<>>}

RECURSIVE LinesOf(_)
LinesOf(n) ==
    IF n = 0 THEN {<<>>}
    ELSE {<<>>} \cup {<<l>> \o ls : l \in FileLines, ls \in LinesOf(n - 1)}

\* WordPieceBuilder::vocab(vocab): any HashMap<String, u32>
VocabMaps == UNION {[T -> 0..MaxVocabId] : T \in SUBSET BuildTokens}

\* WordPieceBuilder::files(vocab): None, a file that cannot be opened, or a
\* file with its lines
VocabFiles ==
    {<<>>, <<[exists |-> FALSE, lines |-> <<>>]>>}
        \cup {<<[exists |-> TRUE, lines |-> ls]>> : ls \in LinesOf(MaxLines)}

\* str::trim_end
RECURSIVE TrimEnd(_)
TrimEnd(s) ==
    IF s # <<>> /\ IsWhitespace(<<s[Len(s)]>>) THEN TrimEnd(SubSeq(s, 1, Len(s) - 1))
    ELSE s

\* the for loop of read_files, lines 172-175
RECURSIVE ReadLines(_, _, _)
ReadLines(lines, idx, m) ==
    IF lines = <<>> THEN m
    ELSE ReadLines(Tail(lines), idx + 1, MapInsert(m, TrimEnd(Head(lines)), idx))

\* WordPiece::read_files of a file that opens
ReadFiles(file) == ReadLines(file.lines, 0, EmptyMap)

\* the vocab build goes on with, lines 105-107
BuildVocab ==
    IF config.files # <<>> THEN ReadFiles(config.files[1]) ELSE config.vocab

\* build() returning Ok(WordPiece)
BuildOk ==
    /\ b_pc = "builder"
    /\ config.files # <<>> => config.files[1].exists
    /\ vocab' = BuildVocab
    /\ vocab_r' \in CollectedVocabR(BuildVocab)
    /\ b_pc' = "built"
    /\ UNCHANGED <<config, max_input_chars_per_word, sentence, index, start,
                   output_tokens, wp_pc>>
    /\ UNCHANGED othervars_bld

\* build() returning the error of File::open, lines 106 and 168
BuildErr ==
    /\ b_pc = "builder"
    /\ config.files # <<>> /\ ~config.files[1].exists
    /\ b_pc' = "err"
    /\ UNCHANGED <<config, vocab_r, wpvars>>
    /\ UNCHANGED othervars_bld

\* WordPiece::builder() with files and vocab set or not
BldInit ==
    /\ config \in [files : VocabFiles, vocab : VocabMaps]
    /\ vocab_r = EmptyMap
    /\ b_pc = "builder"
    /\ vocab = EmptyMap
    /\ max_input_chars_per_word = DefaultMaxInputChars
    /\ sentence = <<>>
    /\ index = 0
    /\ start = 0
    /\ output_tokens = <<>>
    /\ wp_pc = "off"

BldOff ==
    /\ config = [files |-> <<>>, vocab |-> EmptyMap]
    /\ vocab_r = EmptyMap
    /\ b_pc = "off"

BldNext ==
    \/ BuildOk
    \/ BuildErr

\* C25: for every WordPiece model build produces, from any vocab map or
\* vocab file, vocab and vocab_r are inverse bijections:
\* id_to_token(token_to_id(t)) = t for every token of vocab,
\* token_to_id(id_to_token(i)) = i for every id of vocab_r, and both maps
\* have the same size.
C25_VocabBijection ==
    b_pc = "built" =>
        /\ \A t \in DOMAIN vocab : ModelIdToToken(ModelTokenToId(t)[1]) = <<t>>
        /\ \A i \in DOMAIN vocab_r : ModelTokenToId(ModelIdToToken(i)[1]) = <<i>>
        /\ Cardinality(DOMAIN vocab) = Cardinality(DOMAIN vocab_r)

\* C26: WordPiece::tokenize is total: for every vocabulary and every list
\* of pre-tokens it returns Ok(tokens) or Err(MissingUnkToken) after
\* finitely many steps: no index subtraction underflows, no slice falls
\* outside the word or off a character boundary (no panic), and the
\* per-word loop advances its start on every iteration (it never repeats
\* a state for ever).
C26_TokenizeTotal == wp_pc \notin {"panic", "diverge"}

(***************************************************************************)
(* The claims on the entries of the cache.                                 *)
(***************************************************************************)
\* no thread ends a clear in this step
NoClear == \A t \in Threads : ~(c_pc[t] = "clear_write" /\ c_pc'[t] # "clear_write")

\* every entry of the map is still there with its value
EntriesKept == \A k \in DOMAIN map : k \in DOMAIN map' /\ map'[k] = map[k]

\* C27: cache entries are immutable: once a key is stored with a value, no
\* later set_values call, by any thread and with any value for that key,
\* changes the value get_values returns for it; only clear removes it.
C27_EntriesImmutable == [][NoClear => EntriesKept]_vars

\* thread t returns from set_values at the capacity check having found the
\* cache full, with no other thread holding the lock
ReturnsFull(t) ==
    /\ c_pc[t] = "set_check" /\ c_pc'[t] = "idle"
    /\ capacity > 0 /\ MapLen(map) = capacity
    /\ lock_writer = NoThread /\ lock_readers = {t}

\* the keys of the call that has just returned which the cache did not hold
NewKeys == {last_call'.keys[i] : i \in 1..Len(last_call'.keys)} \ DOMAIN map

\* C28 as claimed: the cache is an LRU (or FIFO) of capacity C: when it
\* holds C entries and the lock is free, set_values of a new key stores
\* the key by evicting an older entry, so the key is returned by the next
\* get_values and the size stays C.
C28_EvictsWhenFull ==
    [][\A t \in Threads :
          (ReturnsFull(t) /\ NewKeys # {}) =>
              /\ \E k \in NewKeys : k \in DOMAIN map'
              /\ MapLen(map') = capacity]_vars

\* C28: the cache has capacity C and never evicts: when it holds C entries
\* and the lock is free, set_values of a new key stores nothing and evicts
\* nothing: the map is left as it was, so the new key is still a miss for
\* the next get_values, and the size stays C.
C28_FullCacheDropsUpdate ==
    [][\A t \in Threads :
          (ReturnsFull(t) /\ NewKeys # {}) =>
              /\ map' = map
              /\ \A k \in NewKeys : k \notin DOMAIN map'
              /\ MapLen(map') = capacity]_vars

\* a set_values call for a key the full cache did not hold has returned,
\* and the key is a miss
C28_Witness ==
    /\ last_call.op = "set" /\ last_call.ret = "full"
    /\ capacity > 0 /\ MapLen(map) = capacity
    /\ \E i \in 1..Len(last_call.keys) : last_call.keys[i] \notin DOMAIN map

WPOff ==
    /\ vocab = EmptyMap
    /\ max_input_chars_per_word = DefaultMaxInputChars
    /\ sentence = <<>>
    /\ index = 0
    /\ start = 0
    /\ output_tokens = <<>>
    /\ wp_pc = "off"

Init == WPInit /\ CacheOff /\ EncOff /\ VocOff /\ DeOff /\ PreOff /\ BldOff

Next == WPNext

Spec == Init /\ [][Next]_vars

InitCache == CacheInit /\ WPOff /\ EncOff /\ VocOff /\ DeOff /\ PreOff /\ BldOff

SpecCache == InitCache /\ [][CacheNext]_vars

InitEnc == EncInit /\ WPModel /\ CacheOff /\ VocOff /\ DeOff /\ PreOff /\ BldOff

SpecEnc == InitEnc /\ [][EncNext]_vars

\* the vocab_r of the model of the tokenizer, as build collected it
BuiltModel ==
    /\ config = [files |-> <<>>, vocab |-> EmptyMap]
    /\ vocab_r \in CollectedVocabR(vocab)
    /\ b_pc = "off"

InitVoc == VocInit /\ GapModel /\ BuiltModel /\ CacheOff /\ EncOff /\ DeOff /\ PreOff

SpecVoc == InitVoc /\ [][VocNext]_vars

SpecIds == InitVoc /\ [][IdsNext]_vars

InitDe == DeInit /\ WPOff /\ CacheOff /\ EncOff /\ VocOff /\ PreOff /\ BldOff

SpecDe == InitDe /\ [][DeNext]_vars

InitPre == PreInit /\ WPOff /\ CacheOff /\ EncOff /\ VocOff /\ DeOff /\ BldOff

SpecPre == InitPre /\ [][PreNext]_vars

InitBld == BldInit /\ CacheOff /\ EncOff /\ VocOff /\ DeOff /\ PreOff

SpecBld == InitBld /\ [][BldNext]_vars

====
